---- MODULE Spec2Model ----
(***************************************************************************)
(* Model of the media-resolution endpoint of instagram-downloader:         *)
(*   web/src/app/api/download/route.ts  (POST handler, result cache,       *)
(*                                       in-flight registry, rate limit)   *)
(*   lib/instagram.ts                   (getMediaInfo strategy chain)      *)
(*                                                                         *)
(* The server is one JavaScript event loop.  Code between two awaits runs  *)
(* to completion; the continuation of an await is a promise reaction job   *)
(* placed at the tail of the microtask queue, and the reactions of one     *)
(* promise are queued together, in registration order, when the promise    *)
(* settles.  The model keeps that queue explicitly (microtasks).           *)
(*                                                                         *)
(* Time is counted in minutes: Date.now() is the variable now.             *)
(***************************************************************************)
EXTENDS Integers, Sequences, FiniteSets, TLC

(* ------------------------------ bounds -------------------------------- *)
\* number of POST requests in one behaviour (requests are numbered in
\* arrival order)
NumRequests == 2
\* last value of the clock
MaxTime == 6
\* number of path segments of a classified reference
MaxSegments == 3
\* number of children of a carousel
MaxChildren == 3
\* number of lines of the text submitted for a bulk download
MaxLines == 4

(* -------------------- constants taken from the spec ------------------- *)
\* maxAttempts of the retry executor the spec describes (spec 4.3)
MAX_ATTEMPTS == 3

(* ------------------------- program constants -------------------------- *)
\* route.ts:5   60 * 1000 ms
RATE_LIMIT_WINDOW == 1
\* route.ts:7   5 * 60 * 1000 ms
CACHE_TTL == 5
\* route.ts:8   60 * 1000 ms
CACHE_CLEANUP_INTERVAL == 1
\* DownloadForm.tsx:142  50, the most URLs of one batch
MAX_BATCH == 3
\* route.ts:6   the default of MAX_REQUESTS when RATE_LIMIT is not set
DEFAULT_MAX_REQUESTS == 10

(* ------------------------------ inputs -------------------------------- *)
\* the empty string: no sessionId in the body, no variable in the environment
NoSession == ""
\* sessionId values a request body can carry
BodySessions == {NoSession, "c1"}
\* values of process.env.INSTAGRAM_SESSION_ID
EnvSessions == {NoSession, "envsid"}
\* values of Number(process.env.RATE_LIMIT); 0 stands for unset / NaN
EnvRateLimits == {0, 1}
\* x-forwarded-for values
Ips == {"ip1"}
\* request URLs, as the sequence of path segments after the host
Urls == {<<"p", "A">>}
\* the path segments of the references that are classified
Segments == {"p", "reel", "reels", "stories", "explore", "A", "1", ""}
\* the references that are classified: up to MaxSegments segments
TestUrls == UNION {[1..n -> Segments] : n \in 1..MaxSegments}
\* the URLs of the single request of SpecOne: a post; a page that is no
\* post, reel or story; a story without a numeric id; a post path that does
\* not follow the host
UrlsOne == Urls \cup {<<"explore", "">>, <<"stories", "A", "A">>, <<"explore", "p", "A">>}

\* x-forwarded-for values of two clients
IpsTwo == {"ip1", "ip2"}
\* the URLs the two clients ask for: a post, and a page that is no post
UrlsTwo == Urls \cup {<<"explore", "">>}
\* two spellings of one post's URL: .../p/A and, with a trailing slash,
\* .../p/A/
UrlForms == {<<"p", "A">>, <<"p", "A", "">>}

Requests == 1..NumRequests

VARIABLES
  now,              \* Date.now()
  env,              \* process.env: [INSTAGRAM_SESSION_ID, RATE_LIMIT]
  requestCounts,    \* route.ts:10  Map ip -> [count, resetTime]
  mediaCache,       \* route.ts:18  Map cacheKey -> [data, expires]
  pendingRequests,  \* route.ts:21  Map cacheKey -> promise (its index)
  promises,         \* the promises returned by getMediaInfo, in call order
  handlers,         \* the POST invocations
  microtasks,       \* the promise-reaction job queue
  observe,          \* history: is the course of each chain being logged
  call,             \* the last direct call of an exported or pure function
  form              \* DownloadForm.tsx: the component's state and its bulk run

vars == <<now, env, requestCounts, mediaCache, pendingRequests, promises,
          handlers, microtasks, observe, call, form>>

(* ------------------------------ helpers ------------------------------- *)
\* Map.set on a map kept as a function over its key set
MapSet(m, k, v) == [x \in DOMAIN m \cup {k} |-> IF x = k THEN v ELSE m[x]]
\* Map.delete
MapDelete(m, k) == [x \in DOMAIN m \ {k} |-> m[x]]
\* the empty Map
EmptyMap == [x \in {} |-> 0]

(* --------------------------- rate limiting ---------------------------- *)
\* route.ts:6   Number(process.env['RATE_LIMIT']) || 10
MAX_REQUESTS == IF env.RATE_LIMIT = 0 THEN DEFAULT_MAX_REQUESTS ELSE env.RATE_LIMIT

\* faulty variant: a request is admitted while count <= MAX_REQUESTS
checkRateLimit_Inclusive(ip) ==
  IF ip \notin DOMAIN requestCounts \/ now > requestCounts[ip].resetTime
  THEN TRUE
  ELSE requestCounts[ip].count <= MAX_REQUESTS

\* route.ts:23-38  the value checkRateLimit returns
checkRateLimit(ip) ==
  IF ip \notin DOMAIN requestCounts \/ now > requestCounts[ip].resetTime
  THEN TRUE
  ELSE requestCounts[ip].count < MAX_REQUESTS

\* faulty variant: only the request that opens a window is counted
RequestCountsAfter_FirstOnly(ip) ==
  IF ip \notin DOMAIN requestCounts \/ now > requestCounts[ip].resetTime
  THEN MapSet(requestCounts, ip, [count |-> 1, resetTime |-> now + RATE_LIMIT_WINDOW])
  ELSE requestCounts

\* route.ts:23-38  requestCounts after checkRateLimit(ip)
RequestCountsAfter(ip) ==
  IF ip \notin DOMAIN requestCounts \/ now > requestCounts[ip].resetTime
  THEN MapSet(requestCounts, ip, [count |-> 1, resetTime |-> now + RATE_LIMIT_WINDOW])
  ELSE IF requestCounts[ip].count >= MAX_REQUESTS
       THEN requestCounts
       ELSE MapSet(requestCounts, ip,
                   [count |-> requestCounts[ip].count + 1,
                    resetTime |-> requestCounts[ip].resetTime])

(* ------------------------ cache and cache key ------------------------- *)
\* faulty variant: the key holds the session id itself
getCacheKey_WithValue(url, sessionId) == <<url, sessionId>>

\* faulty variant: the key is made of the URL alone
getCacheKey_UrlOnly(url, sessionId) == <<url, "public">>

\* faulty variant: the key is made of the URL cut after the content id
getCacheKey_CutAfterId(url, sessionId) ==
  <<SubSeq(url, 1, 2), IF sessionId # NoSession THEN "auth" ELSE "public">>

\* route.ts:40-43  `${url}:${sessionId ? 'auth' : 'public'}`; the two suffixes
\* differ, so the string determines the pair and the pair stands for it
getCacheKey(url, sessionId) ==
  <<url, IF sessionId # NoSession THEN "auth" ELSE "public">>

\* faulty variant: the cache never answers
CacheHit_Never(cacheKey) == FALSE

\* faulty variant: the expiry is not looked at
CacheHit_IgnoreExpiry(cacheKey) == cacheKey \in DOMAIN mediaCache

\* route.ts:45-55  does getCachedMedia return an entry's data (not null)
CacheHit(cacheKey) ==
  /\ cacheKey \in DOMAIN mediaCache
  /\ ~(now > mediaCache[cacheKey].expires)

\* faulty variant: an entry that is returned gets a new expiry
CacheAfterLookup_Touch(cacheKey) ==
  IF cacheKey \notin DOMAIN mediaCache THEN mediaCache
  ELSE IF now > mediaCache[cacheKey].expires THEN MapDelete(mediaCache, cacheKey)
  ELSE MapSet(mediaCache, cacheKey,
              [data |-> mediaCache[cacheKey].data, expires |-> now + CACHE_TTL])

\* route.ts:45-55  mediaCache after getCachedMedia: an expired entry is
\* deleted, an entry that is returned is left as it is
CacheAfterLookup(cacheKey) ==
  IF cacheKey \in DOMAIN mediaCache /\ now > mediaCache[cacheKey].expires
  THEN MapDelete(mediaCache, cacheKey)
  ELSE mediaCache

\* faulty variant: nothing is stored
setCachedMedia_Skip(cache, cacheKey, data) == cache

\* route.ts:57-62  mediaCache after setCachedMedia
setCachedMedia(cache, cacheKey, data) ==
  MapSet(cache, cacheKey, [data |-> data, expires |-> now + CACHE_TTL])

\* faulty variant: the registry is never consulted
pendingGet_Never(cacheKey) == 0

\* faulty variant: every result is stored
Cacheable_Always(result) == TRUE

\* route.ts:133  result.success && result.media (an array is truthy, also an
\* empty one)
Cacheable(result) == result.success

\* route.ts:114  pendingRequests.get(cacheKey): the promise, or 0 for undefined
pendingGet(cacheKey) ==
  IF cacheKey \in DOMAIN pendingRequests THEN pendingRequests[cacheKey] ELSE 0

\* faulty variant: the entry is removed in a then, on success only
pendingAfterFinally_Then(cacheKey, result) ==
  IF result.success THEN MapDelete(pendingRequests, cacheKey) ELSE pendingRequests

\* route.ts:122-124  pendingRequests after the callback given to finally, which
\* runs whatever the result is
pendingAfterFinally(cacheKey, result) == MapDelete(pendingRequests, cacheKey)

\* faulty variant: an entry is removed from the instant of its expiry on
SweptCache_AtExpiry ==
  [k \in {x \in DOMAIN mediaCache : now < mediaCache[x].expires} |-> mediaCache[k]]

\* route.ts:65-72  the map after the periodic cleanup
SweptCache ==
  [k \in {x \in DOMAIN mediaCache : ~(now > mediaCache[x].expires)} |-> mediaCache[k]]

(* ------------------------- URL classification ------------------------- *)
\* no media id (null)
NoId == ""
\* the path segments that mark a post or a reel
KindMarkers == {"p", "reel", "reels"}
\* tokens matching \d+
NumericIds == {"1", "2"}

\* faulty variant: match[1] ?? match[2], the marker taken for the id
extractMediaId_FirstGroup(url) ==
  LET marks == {i \in 1..(Len(url) - 1) : url[i] \in KindMarkers /\ url[i + 1] # ""}
      stories == {i \in 1..(Len(url) - 2) :
                    url[i] = "stories" /\ url[i + 1] # "" /\ url[i + 2] \in NumericIds}
      first(S) == CHOOSE i \in S : \A j \in S : i <= j
  IN IF marks # {} THEN url[first(marks)]
     ELSE IF stories # {} THEN url[first(stories) + 2]
     ELSE NoId

\* part_000:34-47  the first /(p|reel|reels)/<id> of the URL, else the
\* /stories/<handle>/<digits> of the URL, else null
extractMediaId(url) ==
  LET marks == {i \in 1..(Len(url) - 1) : url[i] \in KindMarkers /\ url[i + 1] # ""}
      stories == {i \in 1..(Len(url) - 2) :
                    url[i] = "stories" /\ url[i + 1] # "" /\ url[i + 2] \in NumericIds}
      first(S) == CHOOSE i \in S : \A j \in S : i <= j
  IN IF marks # {} THEN url[first(marks) + 1]
     ELSE IF stories # {} THEN url[first(stories) + 2]
     ELSE NoId

\* no media type (null)
NoKind == ""

\* part_000:49-54  extractMediaType: '/reel/' or '/reels/' occurs in the URL,
\* else '/p/', else '/stories/'.  '/x/' occurs when a segment x is followed
\* by another segment.
extractMediaType(url) ==
  LET includes(x) == \E i \in 1..(Len(url) - 1) : url[i] = x
  IN IF includes("reel") \/ includes("reels") THEN "reel"
     ELSE IF includes("p") THEN "post"
     ELSE IF includes("stories") THEN "story"
     ELSE NoKind

\* faulty variant: any string passes
InstagramUrlSchema_Any(url) == TRUE

\* part_000:5-14  InstagramUrlSchema: one of the two patterns occurs in the
\* URL; both start with instagram.com/, so the marker is the first segment
\* of the path
InstagramUrlSchema(url) ==
  IF Len(url) >= 2 /\ url[1] \in KindMarkers
  THEN url[2] # ""
  ELSE /\ Len(url) >= 3
       /\ url[1] = "stories"
       /\ url[2] # ""
       /\ url[3] \in NumericIds

\* DownloadRequestSchema.safeParse(body).success (lib/validation): the body's
\* url is an Instagram URL
DownloadRequestSchema(url) == InstagramUrlSchema(url)

(* --------------------------- strategy chain --------------------------- *)
\* what an upstream fetch can come back with: an ok response from which the
\* parser extracts media, an ok response from which it extracts none, a
\* response with !response.ok (one with the rate-limit status 429, or
\* another), a rejected fetch (transport failure), and an error thrown
\* while the body is read (malformed body, parser exception)
Responses == {"media", "nomedia", "notok", "ratelimited", "neterror", "throw"}

\* the responses with !response.ok
NotOk == {"notok", "ratelimited"}

\* the responses that end in the strategy's catch
Thrown == {"neterror", "throw"}

\* faulty variant: all four strategies, with or without a session
Chain_AllAlways(sessionId) == <<"graphql", "api", "scrape", "json">>

\* faulty variant: the internal API first, the structured query also without a session
Chain_ApiFirst(sessionId) ==
  IF sessionId # NoSession
  THEN <<"api", "graphql", "scrape", "json">>
  ELSE <<"graphql", "scrape", "json">>

\* part_000:106-134  the strategies getMediaInfo tries, in order
Chain(sessionId) ==
  IF sessionId # NoSession
  THEN <<"graphql", "api", "scrape", "json">>
  ELSE <<"scrape", "json">>

\* faulty variant: every strategy answers a response that is not ok with a
\* second fetch
StrategyResult_AltEverywhere(strategy, alt, resp) ==
  CASE resp \in Thrown -> "failure"
    [] resp = "media" -> "success"
    [] resp \in NotOk /\ ~alt -> "alt"
    [] OTHER -> "failure"

\* faulty variant: a strategy without its try/catch
StrategyResult_NoCatch(strategy, alt, resp) ==
  CASE resp \in Thrown -> "thrown"
    [] resp = "media" -> "success"
    [] resp \in NotOk /\ strategy = "api" /\ ~alt -> "alt"
    [] OTHER -> "failure"

\* part_000:150-184, 237-264, 266-358, 360-394  what one strategy makes of a
\* response: "success", "failure", "alt" (tryApiEndpoint issues its second
\* fetch) or "thrown" (the error leaves the strategy).  alt says that the
\* response answers tryApiEndpoint's second fetch.
StrategyResult(strategy, alt, resp) ==
  CASE resp \in Thrown -> "failure"
    [] resp = "media" -> "success"
    [] resp \in NotOk /\ strategy = "api" /\ ~alt -> "alt"
    [] OTHER -> "failure"

\* DownloadResult { success: true, media }: the assets the upstream returned
\* to this strategy for the Cookie built from sessionId
Success(strategy, sessionId) ==
  [success |-> TRUE,
   media |-> <<[via |-> strategy, session |-> sessionId]>>,
   error |-> ""]

\* DownloadResult { success: false, error }
Failure(error) == [success |-> FALSE, media |-> <<>>, error |-> error]

\* part_000:169-183, 249-263, 273-275, 354-357, 381-393, 410-412, 477  the
\* messages a strategy can return as its failure for a response of the class
StrategyErrors(strategy, resp) ==
  CASE strategy = "graphql" ->
         IF resp \in NotOk THEN {"GraphQL request failed"}
         ELSE IF resp \in Thrown THEN {"GraphQL endpoint failed"}
         ELSE {"No media in GraphQL response", "Could not parse media"}
    [] strategy = "api" ->
         IF resp \in NotOk \cup Thrown THEN {"API request failed"}
         ELSE {"No media items found", "Could not parse media from API response"}
    [] strategy = "scrape" ->
         IF resp \in NotOk THEN {"Could not fetch page"}
         ELSE IF resp \in Thrown THEN {"Failed to scrape page"}
         ELSE {"No media found in page"}
    [] OTHER ->
         IF resp \in NotOk \cup Thrown THEN {"JSON endpoint failed"}
         ELSE {"No items in JSON response", "No media items found",
               "Could not parse media from API response"}

\* the messages a DownloadResult carries: its one error string
MessageParts(result) == {result.error}

\* faulty variant: one message, whatever the session
AllFailed_NoHint(sessionId) ==
  [success |-> FALSE, media |-> <<>>, error |-> "Could not fetch media."]

\* part_000:136-141  the result when every strategy failed
AllFailed(sessionId) ==
  Failure(IF sessionId # NoSession
          THEN "Could not fetch media. The post may be private or the session may have expired."
          ELSE "Could not fetch media. Try adding your Instagram Session ID for private content.")

\* no result yet
NoResult == Failure("")

\* part_000:94-110  getMediaInfo up to its first await: the first strategy of
\* the chain has issued its fetch.  log, fetches and first are history, kept
\* while observe holds: the strategies that have returned, the fetches
\* issued, and the response to tryApiEndpoint's first fetch while its second
\* is outstanding.
StartChain(url, sessionId) ==
  IF extractMediaId(url) = NoId
  THEN [sid |-> sessionId, pos |-> 1, alt |-> FALSE, done |-> TRUE,
        value |-> Failure("Could not extract media ID from URL"),
        log |-> <<>>, fetches |-> 0, first |-> ""]
  ELSE [sid |-> sessionId, pos |-> 1, alt |-> FALSE, done |-> FALSE,
        value |-> NoResult,
        log |-> <<>>, fetches |-> IF observe THEN 1 ELSE 0, first |-> ""]

\* faulty variant: after a failure the following strategy is passed over
NextPos_Skip(c) ==
  IF c.pos + 2 <= Len(Chain(c.sid)) THEN c.pos + 2 ELSE c.pos + 1

\* part_000:111-131  a strategy that did not succeed is followed by the next
\* one of the chain
NextPos(c) == c.pos + 1

\* part_000:110-147  getMediaInfo resumed by the response to the outstanding
\* fetch: it returns (done) or the next fetch is issued
ChainStep(c, resp) ==
  LET strategy == Chain(c.sid)[c.pos]
      r == StrategyResult(strategy, c.alt, resp)
      log == IF observe
             THEN Append(c.log, [strategy |-> strategy, ok |-> r = "success",
                                 threw |-> resp \in Thrown, resp |-> resp,
                                 calls |-> IF c.alt THEN 2 ELSE 1,
                                 first |-> c.first])
             ELSE c.log
      fetched == IF observe THEN c.fetches + 1 ELSE c.fetches
  IN CASE r = "alt" ->
            [c EXCEPT !.alt = TRUE, !.fetches = fetched,
                      !.first = IF observe THEN resp ELSE ""]
       [] r = "success" ->
            [c EXCEPT !.log = log, !.alt = FALSE, !.first = "", !.done = TRUE,
                      !.value = Success(strategy, c.sid)]
       [] r = "thrown" ->
            \* part_000:142-147  the catch of getMediaInfo
            [c EXCEPT !.log = log, !.alt = FALSE, !.first = "", !.done = TRUE,
                      !.value = Failure("thrown")]
       [] OTHER ->
            IF c.pos < Len(Chain(c.sid))
            THEN [c EXCEPT !.log = log, !.alt = FALSE, !.first = "",
                           !.pos = NextPos(c), !.fetches = fetched]
            ELSE [c EXCEPT !.log = log, !.alt = FALSE, !.first = "", !.done = TRUE,
                           !.value = AllFailed(c.sid)]

(* ------------------------------ parsers ------------------------------- *)
\* the sequences over S of up to n elements
SeqsUpTo(S, n) == UNION {[1..k -> S] : k \in 0..n}

\* an optional array: undefined, or defined with its items
Undefined == [defined |-> FALSE, items |-> <<>>]
Defined(items) == [defined |-> TRUE, items |-> items]

\* ids of the media and of carousel children
MediaIds == {"a", "b"}

\* A MediaInfo keeps here its id, its type and where its url was read: the
\* object (by id) and the field.  thumbnailUrl, width, height, caption and
\* username are left out.
MediaInfo(id, type, field) == [id |-> id, type |-> type, url |-> [of |-> id, field |-> field]]

\* part_000:196-210  the MediaInfo pushed for one edge's node
GraphQLNodeMedia(node) ==
  IF node.is_video
  THEN MediaInfo(node.id, "video", "video_url")
  ELSE MediaInfo(node.id, "image", "display_url")

\* part_000:187-228  the array result of parseGraphQLMedia
GraphQLResult(media) ==
  IF media.typename = "GraphSidecar"
  THEN IF media.edges.defined
       THEN [i \in 1..Len(media.edges.items) |-> GraphQLNodeMedia(media.edges.items[i])]
       ELSE <<>>
  ELSE IF media.is_video
       THEN <<MediaInfo(media.id, "video", "video_url")>>
       ELSE <<MediaInfo(media.id, "image", "display_url")>>

\* faulty variant: the result is returned without looking at its length
parseGraphQLMedia_NoLengthCheck(media) ==
  [success |-> TRUE, media |-> GraphQLResult(media), error |-> ""]

\* part_000:186-235  parseGraphQLMedia
parseGraphQLMedia(media) ==
  IF Len(GraphQLResult(media)) > 0
  THEN [success |-> TRUE, media |-> GraphQLResult(media), error |-> ""]
  ELSE Failure("Could not parse media")

\* part_000:420, 440  videoVersions && videoVersions.length > 0 && videoVersions[0]
HasVideo(object) == object.video_versions.defined /\ Len(object.video_versions.items) > 0

\* part_000:448-450, 459-462  imageVersions && candidates[0]
HasImage(object) == object.image_versions2.defined /\ Len(object.image_versions2.items) > 0

\* part_000:436-458  the MediaInfos pushed for the children of a carousel
RECURSIVE CarouselMedia(_)
CarouselMedia(children) ==
  IF children = <<>> THEN <<>>
  ELSE LET child == Head(children)
       IN (IF HasVideo(child) THEN <<MediaInfo(child.pk, "video", "video_versions")>>
           ELSE IF HasImage(child) THEN <<MediaInfo(child.pk, "image", "image_versions2")>>
           ELSE <<>>)
          \o CarouselMedia(Tail(children))

\* part_000:414-471  the array media of parseApiMedia
ApiMedia(item) ==
  IF HasVideo(item)
  THEN <<MediaInfo(item.pk, "video", "video_versions")>>
  ELSE IF item.carousel_media.defined /\ Len(item.carousel_media.items) > 0
       THEN CarouselMedia(item.carousel_media.items)
       ELSE IF HasImage(item)
            THEN <<MediaInfo(item.pk, "image", "image_versions2")>>
            ELSE <<>>

\* part_000:409-478  parseApiMedia
parseApiMedia(item) ==
  IF ~item.defined
  THEN Failure("No media items found")
  ELSE IF Len(ApiMedia(item)) > 0
       THEN [success |-> TRUE, media |-> ApiMedia(item), error |-> ""]
       ELSE Failure("Could not parse media from API response")

\* part_000:283-348  the patterns scrapeMediaPage looks for in the page, in
\* the order it tries them, and the type of the MediaInfo each one gives
ScrapePatterns == <<"video_url", "contentUrl", "og:video", "display_url", "og:image">>
ScrapeType(pattern) ==
  IF pattern \in {"video_url", "contentUrl", "og:video"} THEN "video" ELSE "image"

\* A text is the sequence of its pieces: an escape sequence is one piece,
\* any other run of characters is one piece.
\* String.prototype.replace with a /g pattern: every occurrence is replaced
ReplaceAll(text, from, to) ==
  [i \in DOMAIN text |-> IF text[i] = from THEN to ELSE text[i]]

\* part_000:286-288, 300-302, 328-330  .replace(/\\u0026/g, '&').replace(/\\\//g, '/')
UnescapeJson(text) == ReplaceAll(ReplaceAll(text, "\\u0026", "&"), "\\/", "/")

\* part_000:318, 345  .replace(/&amp;/g, '&')
UnescapeTag(text) == ReplaceAll(text, "&amp;", "&")

\* part_000:283-348  the url made of the text a pattern captured
ScrapeUrl(pattern, text) ==
  IF pattern \in {"og:video", "og:image"} THEN UnescapeTag(text) ELSE UnescapeJson(text)

\* the MediaInfo pushed for the text a pattern captured
ScrapedInfo(mediaId, pattern, text) ==
  [id |-> mediaId, type |-> ScrapeType(pattern),
   url |-> [of |-> mediaId, field |-> pattern, text |-> ScrapeUrl(pattern, text)]]

\* the patterns that match in the page html: html maps each of them to the
\* text its group captures
Matching(html) == {i \in DOMAIN ScrapePatterns : ScrapePatterns[i] \in DOMAIN html}

\* faulty variant: the last pattern that matches is taken
ScrapeMedia_LastWins(mediaId, html) ==
  LET last == CHOOSE i \in Matching(html) : \A j \in Matching(html) : i >= j
  IN IF Matching(html) = {} THEN <<>>
     ELSE <<ScrapedInfo(mediaId, ScrapePatterns[last], html[ScrapePatterns[last]])>>

\* part_000:280-348  the array media of scrapeMediaPage for the page html:
\* a pattern is tried while media is empty, so the first that matches is taken
ScrapeMedia(mediaId, html) ==
  LET first == CHOOSE i \in Matching(html) : \A j \in Matching(html) : i <= j
  IN IF Matching(html) = {} THEN <<>>
     ELSE <<ScrapedInfo(mediaId, ScrapePatterns[first], html[ScrapePatterns[first]])>>

\* part_000:277-354  scrapeMediaPage from the text of an ok response
ScrapeResult(mediaId, html) ==
  IF Len(ScrapeMedia(mediaId, html)) > 0
  THEN [success |-> TRUE, media |-> ScrapeMedia(mediaId, html), error |-> ""]
  ELSE Failure("No media found in page")

\* the texts a pattern captures: a plain one, and ones with an ampersand
\* written as an HTML entity or as a JSON escape and with escaped slashes
CapturedTexts ==
  {<<"u">>, <<"u", "&amp;">>, <<"u", "\\u0026">>, <<"\\/", "\\/">>}

\* the pages scraped: any of the patterns match, each capturing a text
Pages ==
  UNION {[S -> CapturedTexts] : S \in SUBSET {ScrapePatterns[i] : i \in DOMAIN ScrapePatterns}}

\* the shortcode_media objects parsed: a carousel, a video or an image
GraphQLNodes == [id : MediaIds, is_video : BOOLEAN]
GraphQLInputs ==
  [typename : {"GraphSidecar", "GraphVideo", "GraphImage"},
   is_video : BOOLEAN,
   id : {"m"},
   edges : {Undefined} \cup {Defined(items) : items \in SeqsUpTo(GraphQLNodes, MaxChildren)}]

\* the items parsed: video_versions and image_versions2 (its candidates)
\* undefined, empty or with one entry; the children of a carousel are a
\* video, an image, or an object with neither
Versions == {Undefined, Defined(<<>>), Defined(<<"first">>)}
ApiChildren ==
  {[pk |-> pk, video_versions |-> kind[1], image_versions2 |-> kind[2]] :
     pk \in MediaIds,
     kind \in {<<Defined(<<"first">>), Defined(<<"first">>)>>,
               <<Undefined, Defined(<<"first">>)>>,
               <<Undefined, Undefined>>}}
ApiInputs ==
  {[defined |-> FALSE, pk |-> "m", video_versions |-> Undefined,
    carousel_media |-> Undefined, image_versions2 |-> Undefined]}
  \cup [defined : {TRUE},
        pk : {"m"},
        video_versions : Versions,
        carousel_media : {Undefined} \cup
                         {Defined(items) : items \in SeqsUpTo(ApiChildren, MaxChildren)},
        image_versions2 : Versions]

(* ------------------------------ state --------------------------------- *)
\* a response not yet sent
NoResponse == [status |-> 0, result |-> NoResult, cached |-> FALSE]

\* a POST invocation that has not been made yet
IdleHandler ==
  [pc |-> "idle", ip |-> "", url |-> <<>>, sessionId |-> NoSession,
   promise |-> 0, resp |-> NoResponse, after |-> {}, doneAt |-> 0]

(* ------------------------- the download form -------------------------- *)
\* the lines of the textarea: a blank one, one that is no Instagram URL, and
\* an Instagram URL with spaces around it
Lines == {" ", "other", " ig "}
\* the texts submitted
Texts == SeqsUpTo(Lines, MaxLines)

\* String.prototype.trim
Trim(line) ==
  CASE line = " " -> ""
    [] line = " ig " -> "ig"
    [] OTHER -> line

\* line.includes('instagram.com')
IncludesInstagram(line) == line \in {"ig", " ig "}

\* DownloadForm.tsx:126-131  parseUrls: the lines trimmed, those kept that are
\* not empty and include instagram.com
parseUrls(text) ==
  SelectSeq([i \in DOMAIN text |-> Trim(text[i])],
            LAMBDA line : line # "" /\ IncludesInstagram(line))

\* a message of state.error or state.success with the numbers it shows;
\* NoMessage is null
Message(msg, n, from, to) == [msg |-> msg, n |-> n, from |-> from, to |-> to]
NoMessage == Message("", 0, 0, 0)

\* a file name `${number}.${ext}`; NoFile is undefined
FileName(number, ext) == [number |-> number, ext |-> ext]
NoFile == FileName(0, "")

\* DownloadForm.tsx:148  a BulkDownloadItem as created: pending
PendingItem(url) ==
  [url |-> url, status |-> "pending", error |-> "", filename |-> NoFile, fileNumber |-> 0]

\* the local variables of handleBulkSubmit and the await it is at: "resolve"
\* (the POST of item i), "proxy" (the fetch of its media), "delay" (the timer
\* between items), "zip" (generateAsync); "idle" before the first call,
\* "ended" after it has returned
NoRun ==
  [pc |-> "idle", len |-> 0, i |-> 0, successCount |-> 0, errorCount |-> 0,
   startNumber |-> 0, currentFileNumber |-> 0, files |-> <<>>, ext |-> ""]

\* DownloadForm.tsx:45-53  the component as mounted.  zip holds the files of
\* the ZIP the run has handed to the browser, none if empty.
InitForm ==
  [state |-> [loading |-> FALSE, error |-> NoMessage, success |-> NoMessage,
              downloading |-> FALSE],
   bulkItems |-> <<>>,
   bulkProgress |-> [current |-> 0, total |-> 0],
   abort |-> FALSE,
   run |-> NoRun,
   zip |-> <<>>]

\* setBulkItems(prev => prev.map((p, idx) => idx === i ? item : p))
SetItem(f, i, item) == [f EXCEPT !.bulkItems[i] = item]

\* DownloadForm.tsx:162-178  the loop body up to its first await: item i is
\* marked downloading, the progress shows it, its POST is sent
StartItem(f, i) ==
  [SetItem(f, i, [f.bulkItems[i] EXCEPT !.status = "downloading"])
     EXCEPT !.bulkProgress = [current |-> i, total |-> f.run.len],
            !.run.i = i,
            !.run.pc = "resolve"]

\* DownloadForm.tsx:238-243  the last setState of the run
Finish(f) ==
  [f EXCEPT !.state =
              [loading |-> FALSE,
               error |-> IF f.run.errorCount > 0
                         THEN Message("download(s) skipped", f.run.errorCount, 0, 0)
                         ELSE NoMessage,
               success |-> IF f.run.successCount > 0
                           THEN Message("Downloaded file(s)", f.run.successCount,
                                        f.run.startNumber, f.run.currentFileNumber - 1)
                           ELSE NoMessage,
               downloading |-> FALSE],
            !.run.pc = "ended"]

\* DownloadForm.tsx:222-243  after the loop: the ZIP is generated when an item
\* succeeded and the run was not cancelled, else the run ends
AfterLoop(f) ==
  IF f.run.successCount > 0 /\ ~f.abort
  THEN [f EXCEPT !.run.pc = "zip"]
  ELSE Finish(f)

\* DownloadForm.tsx:216-220  after an item: the delay before the next one, or
\* the end of the loop after the last
AfterItem(f) ==
  IF f.run.i < f.run.len
  THEN [f EXCEPT !.run.pc = "delay"]
  ELSE AfterLoop(f)

\* faulty variant: the number is also consumed by an item that failed
Skipped_Counting(f, error) ==
  [SetItem(f, f.run.i, [f.bulkItems[f.run.i] EXCEPT !.status = "skipped", !.error = error])
     EXCEPT !.run.errorCount = @ + 1,
            !.run.currentFileNumber = @ + 1]

\* DownloadForm.tsx:204-214  the catch of the loop body: the item is skipped
Skipped(f, error) ==
  [SetItem(f, f.run.i, [f.bulkItems[f.run.i] EXCEPT !.status = "skipped", !.error = error])
     EXCEPT !.run.errorCount = @ + 1]

\* DownloadForm.tsx:189-203  the media of item i was fetched: the file is added
\* to the folder under the current number, which is then incremented.  The
\* updater given to setBulkItems reads currentFileNumber when React runs it:
\* at once (deferred false) or at the next render, after the increment.
Succeeded(f, deferred) ==
  LET filename == FileName(f.run.currentFileNumber, f.run.ext)
      fileNumber == IF deferred THEN f.run.currentFileNumber + 1
                    ELSE f.run.currentFileNumber
  IN [SetItem(f, f.run.i, [f.bulkItems[f.run.i] EXCEPT !.status = "success",
                                                        !.filename = filename,
                                                        !.fileNumber = fileNumber])
        EXCEPT !.run.files = Append(@, filename),
               !.run.successCount = @ + 1,
               !.run.currentFileNumber = @ + 1]

\* faulty variant: a batch of any size is taken
Refusal_NoLimit(urls) ==
  IF Len(urls) = 0
  THEN Message("Please enter at least one valid Instagram URL", 0, 0, 0)
  ELSE NoMessage

\* DownloadForm.tsx:137-145  the error handleBulkSubmit returns with before it
\* starts a run, null if it starts one
Refusal(urls) ==
  IF Len(urls) = 0
  THEN Message("Please enter at least one valid Instagram URL", 0, 0, 0)
  ELSE IF Len(urls) > MAX_BATCH
  THEN Message("Maximum 50 URLs per batch", 0, 0, 0)
  ELSE NoMessage

\* the variables of the server
server == <<now, env, requestCounts, mediaCache, pendingRequests, promises,
            handlers, microtasks, observe, call>>

\* DownloadForm.tsx:133-178  handleBulkSubmit is called with the text of the
\* textarea and the start number: it refuses the text, or starts a run and
\* sends the POST of the first item.  The submit button is disabled while
\* state.loading (line 459); that it is also disabled for a text without URLs
\* is not relied on, as the handler makes this check itself.
Submit(text, startNumber) ==
  LET urls == parseUrls(text) IN
  /\ ~form.state.loading
  /\ form' =
       IF Refusal(urls) # NoMessage
       THEN [form EXCEPT !.state.error = Refusal(urls)]
       ELSE StartItem(
              [state |-> [loading |-> TRUE, error |-> NoMessage, success |-> NoMessage,
                          downloading |-> TRUE],
               bulkItems |-> [i \in DOMAIN urls |-> PendingItem(urls[i])],
               bulkProgress |-> [current |-> 0, total |-> Len(urls)],
               abort |-> FALSE,
               run |-> [NoRun EXCEPT !.len = Len(urls),
                                     !.startNumber = startNumber,
                                     !.currentFileNumber = startNumber],
               zip |-> <<>>],
              1)
  /\ UNCHANGED server

\* DownloadForm.tsx:171-186, 204-220  the POST of the item is answered with
\* media of a type, with a response that is not ok (or the fetch rejects) or
\* with one without media: the fetch of its media is sent, or the item is
\* skipped
Resolved(outcome) ==
  /\ form.run.pc = "resolve"
  /\ form' =
       CASE outcome = "notok" -> AfterItem(Skipped(form, "Failed"))
         [] outcome = "nomedia" -> AfterItem(Skipped(form, "No media"))
         [] OTHER -> [form EXCEPT !.run.pc = "proxy",
                                  !.run.ext = IF outcome = "video" THEN "mp4" ELSE "jpg"]
  /\ UNCHANGED server

\* DownloadForm.tsx:186-220  the fetch of the media is answered
Proxied(ok, deferred) ==
  /\ form.run.pc = "proxy"
  /\ form' = IF ok THEN AfterItem(Succeeded(form, deferred))
             ELSE AfterItem(Skipped(form, "Download failed"))
  /\ UNCHANGED server

\* DownloadForm.tsx:159-178, 218  the delay is over: the loop goes on with the
\* next item, or breaks when the run was cancelled
TimerFires ==
  /\ form.run.pc = "delay"
  /\ form' = IF form.abort THEN AfterLoop(form) ELSE StartItem(form, form.run.i + 1)
  /\ UNCHANGED server

\* DownloadForm.tsx:223-243  generateAsync settles: the ZIP is handed to the
\* browser, or state.error is set and overwritten; the run ends
ZipDone(ok) ==
  /\ form.run.pc = "zip"
  /\ form' = IF ok THEN Finish([form EXCEPT !.zip = form.run.files]) ELSE Finish(form)
  /\ UNCHANGED server

\* DownloadForm.tsx:246-248, 474-481  the Cancel button, shown while
\* state.loading, is clicked
cancelBulkDownload ==
  /\ form.state.loading
  /\ form' = [form EXCEPT !.abort = TRUE]
  /\ UNCHANGED server

\* no direct call has been made
NoCall == [fn |-> ""]

InitState ==
  /\ now = 0
  /\ env \in [INSTAGRAM_SESSION_ID : EnvSessions, RATE_LIMIT : EnvRateLimits]
  /\ requestCounts = EmptyMap
  /\ mediaCache = EmptyMap
  /\ pendingRequests = EmptyMap
  /\ promises = <<>>
  /\ handlers = [h \in Requests |-> IdleHandler]
  /\ microtasks = <<>>
  /\ call = NoCall
  /\ form = InitForm

\* the server after the module is loaded
Init == InitState /\ observe = FALSE

\* the same, with the chains logged
InitObserved == InitState /\ observe = TRUE

\* promise reaction jobs
BodyJob(h) == [t |-> "body", h |-> h, p |-> 0]
FinallyJob(p) == [t |-> "finally", h |-> 0, p |-> p]
ContJob(h, p) == [t |-> "cont", h |-> h, p |-> p]

\* the job of a reaction of promise p: reaction 0 is the callback given to
\* finally (route.ts:122), reaction h > 0 the continuation of request h's
\* await (route.ts:130)
JobOf(reaction, p) == IF reaction = 0 THEN FinallyJob(p) ELSE ContJob(reaction, p)

\* TriggerPromiseReactions: the jobs of the reactions, in registration order
RECURSIVE JobsOf(_, _)
JobsOf(reactions, p) ==
  IF reactions = <<>> THEN <<>>
  ELSE <<JobOf(Head(reactions), p)>> \o JobsOf(Tail(reactions), p)

(* --------------------------- response body --------------------------- *)
\* faulty variant: a failure is answered with the DownloadResult itself
ResponseBody_Result(resp) ==
  IF resp.status = 200
  THEN [success |-> resp.result.success, media |-> resp.result.media,
        cached |-> resp.cached]
  ELSE [success |-> FALSE, error |-> resp.result.error]

\* route.ts:78-81, 90-93, 106-110, 137-148, 151-154  the JSON body of a
\* response, as the function from its field names to its values: a 200 is
\* { success, media, cached }, every other status is { error }
ResponseBody(resp) ==
  IF resp.status = 200
  THEN [success |-> resp.result.success, media |-> resp.result.media,
        cached |-> resp.cached]
  ELSE [error |-> resp.result.error]

(* ------------------------------ actions ------------------------------- *)
\* route.ts:98  body.sessionId || process.env['INSTAGRAM_SESSION_ID']
EffectiveSession(bodySessionId) ==
  IF bodySessionId # NoSession THEN bodySessionId ELSE env.INSTAGRAM_SESSION_ID

\* route.ts:100  the cacheKey of request h
KeyOf(h) == getCacheKey(handlers[h].url, EffectiveSession(handlers[h].sessionId))

\* the requests that have been answered
Returned == {g \in Requests : handlers[g].pc = "done"}

\* route.ts:74-86  POST is called: the rate limit is checked and the body is
\* requested (await request.json())
POST(h, ip, url, sessionId) ==
  /\ handlers[h].pc = "idle"
  /\ IF h = 1 THEN TRUE ELSE handlers[h - 1].pc # "idle"
  /\ requestCounts' = RequestCountsAfter(ip)
  /\ handlers' = [handlers EXCEPT ![h] =
       IF checkRateLimit(ip)
       THEN [@ EXCEPT !.pc = "json", !.ip = ip, !.url = url, !.sessionId = sessionId,
                      !.after = Returned]
       ELSE [@ EXCEPT !.pc = "done", !.ip = ip, !.url = url, !.sessionId = sessionId,
                      !.after = Returned, !.doneAt = now,
                      !.resp = [status |-> 429,
                                result |-> Failure("Rate limit exceeded. Please try again later."),
                                cached |-> FALSE]]]
  /\ UNCHANGED <<now, env, mediaCache, pendingRequests, promises, microtasks, observe, call, form>>

\* An I/O completion (a request body, an upstream response) is delivered
\* between two jobs and appends its jobs behind the queued ones.  Delivered
\* while reactions of a fulfilled promise are queued it has the effect it has
\* once they have run, so it is delivered only when no reaction is queued.
NoReactionQueued == \A i \in 1..Len(microtasks) : microtasks[i].t = "body"

\* request.json() resolves: the rest of POST becomes a job
BodyParsed(h) ==
  /\ NoReactionQueued
  /\ handlers[h].pc = "json"
  /\ handlers' = [handlers EXCEPT ![h].pc = "parsed"]
  /\ microtasks' = Append(microtasks, BodyJob(h))
  /\ UNCHANGED <<now, env, requestCounts, mediaCache, pendingRequests, promises, observe, call, form>>

\* route.ts:86, 149-154  request.json() rejects (the body is not JSON): the
\* catch of POST answers 500.  The job that runs the catch touches no map,
\* so the answer is recorded when the rejection is delivered.
BodyRejected(h) ==
  /\ NoReactionQueued
  /\ handlers[h].pc = "json"
  /\ handlers' = [handlers EXCEPT ![h].pc = "done", ![h].doneAt = now,
        ![h].resp = [status |-> 500,
                     result |-> Failure("Internal server error"),
                     cached |-> FALSE]]
  /\ UNCHANGED <<now, env, requestCounts, mediaCache, pendingRequests, promises,
                 microtasks, observe, call, form>>

\* route.ts:87-130  POST from the parsed body to await pendingRequest
RunBody ==
  /\ microtasks # <<>>
  /\ Head(microtasks).t = "body"
  /\ LET h == Head(microtasks).h
         url == handlers[h].url
         sessionId == EffectiveSession(handlers[h].sessionId)
         cacheKey == getCacheKey(url, sessionId)
         pending == pendingGet(cacheKey)
         p == IF pending # 0 THEN pending ELSE Len(promises) + 1
         chain == StartChain(url, sessionId)
     IN IF ~DownloadRequestSchema(url)
        THEN /\ handlers' = [handlers EXCEPT ![h].pc = "done", ![h].doneAt = now,
                   ![h].resp = [status |-> 400,
                                result |-> Failure("Invalid Instagram URL"),
                                cached |-> FALSE]]
             /\ microtasks' = Tail(microtasks)
             /\ UNCHANGED <<mediaCache, pendingRequests, promises, observe>>
        ELSE IF CacheHit(cacheKey)
        THEN /\ handlers' = [handlers EXCEPT ![h].pc = "done", ![h].doneAt = now,
                   ![h].resp = [status |-> 200,
                                result |-> mediaCache[cacheKey].data,
                                cached |-> TRUE]]
             /\ mediaCache' = CacheAfterLookup(cacheKey)
             /\ microtasks' = Tail(microtasks)
             /\ UNCHANGED <<pendingRequests, promises, observe>>
        ELSE /\ mediaCache' = CacheAfterLookup(cacheKey)
             /\ handlers' = [handlers EXCEPT ![h].pc = "await",
                                             ![h].promise = p]
             /\ IF pending # 0
                THEN \* route.ts:125-130  await the promise already there
                     /\ pendingRequests' = pendingRequests
                     /\ IF promises[p].chain.done
                        THEN /\ promises' = promises
                             /\ microtasks' = Append(Tail(microtasks), ContJob(h, p))
                        ELSE /\ promises' = [promises EXCEPT ![p].reactions = Append(@, h)]
                             /\ microtasks' = Tail(microtasks)
                ELSE \* route.ts:116-124, 130  call getMediaInfo, register the
                     \* promise, the finally callback and the await
                     /\ pendingRequests' = MapSet(pendingRequests, cacheKey, p)
                     /\ IF chain.done
                        THEN /\ promises' = Append(promises,
                                   [key |-> cacheKey, by |-> h, chain |-> chain,
                                    reactions |-> <<>>])
                             /\ microtasks' = Tail(microtasks) \o JobsOf(<<0, h>>, p)
                        ELSE /\ promises' = Append(promises,
                                   [key |-> cacheKey, by |-> h, chain |-> chain,
                                    reactions |-> <<0, h>>])
                             /\ microtasks' = Tail(microtasks)
  /\ UNCHANGED <<now, env, requestCounts, observe, call, form>>

\* route.ts:122-124  the finally callback
RunFinally ==
  /\ microtasks # <<>>
  /\ Head(microtasks).t = "finally"
  /\ pendingRequests' = pendingAfterFinally(promises[Head(microtasks).p].key,
                                            promises[Head(microtasks).p].chain.value)
  /\ microtasks' = Tail(microtasks)
  /\ UNCHANGED <<now, env, requestCounts, mediaCache, promises, handlers, observe, call, form>>

\* route.ts:130-148  POST resumed with the result of the awaited promise
RunCont ==
  /\ microtasks # <<>>
  /\ Head(microtasks).t = "cont"
  /\ LET h == Head(microtasks).h
         result == promises[Head(microtasks).p].chain.value
     IN /\ mediaCache' = IF Cacheable(result)
                         THEN setCachedMedia(mediaCache, KeyOf(h), result)
                         ELSE mediaCache
        /\ handlers' = [handlers EXCEPT ![h].pc = "done", ![h].doneAt = now,
              ![h].resp = [status |-> IF result.success THEN 200 ELSE 400,
                           result |-> result,
                           cached |-> FALSE]]
  /\ microtasks' = Tail(microtasks)
  /\ UNCHANGED <<now, env, requestCounts, pendingRequests, promises, observe, call, form>>

\* the upstream answers the outstanding fetch of chain p; when getMediaInfo
\* returns, its promise is fulfilled and its reactions become jobs
UpstreamResponds(p, resp) ==
  /\ NoReactionQueued
  /\ p \in DOMAIN promises
  /\ ~promises[p].chain.done
  /\ LET c == ChainStep(promises[p].chain, resp)
     IN IF c.done
        THEN /\ promises' = [promises EXCEPT ![p].chain = c, ![p].reactions = <<>>]
             /\ microtasks' = microtasks \o JobsOf(promises[p].reactions, p)
        ELSE /\ promises' = [promises EXCEPT ![p].chain = c]
             /\ microtasks' = microtasks
  /\ UNCHANGED <<now, env, requestCounts, mediaCache, pendingRequests, handlers, observe, call, form>>

\* route.ts:65-72  the cleanup timer fires (a timer callback runs only when
\* no job is queued)
Sweep ==
  /\ microtasks = <<>>
  /\ mediaCache' = SweptCache
  /\ UNCHANGED <<now, env, requestCounts, pendingRequests, promises, handlers, microtasks, observe, call, form>>

\* the clock is read only to compare it with a stored time (resetTime,
\* expires): once it is past all of them, a later reading finds the same
LiveDeadline ==
  \/ \E ip \in DOMAIN requestCounts : ~(now > requestCounts[ip].resetTime)
  \/ \E k \in DOMAIN mediaCache : ~(now > mediaCache[k].expires)

\* a minute passes; the jobs of one turn of the event loop take no time on
\* this scale
Tick ==
  /\ microtasks = <<>>
  /\ now < MaxTime
  /\ LiveDeadline
  /\ now' = now + 1
  /\ UNCHANGED <<env, requestCounts, mediaCache, pendingRequests, promises, handlers, microtasks, observe, call, form>>

\* what the event loop does besides accepting a request
Serve ==
  \/ \E h \in Requests : BodyParsed(h)
  \/ \E h \in Requests : BodyRejected(h)
  \/ RunBody
  \/ RunFinally
  \/ RunCont
  \/ \E p \in Requests, resp \in Responses : UpstreamResponds(p, resp)
  \/ Sweep
  \/ Tick

Next ==
  \/ \E h \in Requests, ip \in Ips, url \in Urls, sessionId \in BodySessions :
       POST(h, ip, url, sessionId)
  \/ Serve

\* the server, with up to NumRequests requests
Spec == Init /\ [][Next]_vars

\* one request, the course of its chain logged
NextOne ==
  \/ \E ip \in Ips, url \in UrlsOne, sessionId \in BodySessions :
       POST(1, ip, url, sessionId)
  \/ Serve

SpecOne == InitObserved /\ [][NextOne]_vars

\* What the event loop is bound to do: a queued job runs, and the body of an
\* accepted request arrives.  Nothing bounds the time a fetch takes: it is
\* called without a signal or a timeout (part_000:162, 245, 268, 374, 379),
\* so no fairness is stated for UpstreamResponds.
Fairness ==
  /\ WF_vars(RunBody)
  /\ WF_vars(RunFinally)
  /\ WF_vars(RunCont)
  /\ WF_vars(\E h \in Requests : BodyParsed(h))

\* the server, its jobs run and its request bodies delivered
SpecLive == Init /\ [][Next]_vars /\ Fairness

\* the server, its requests made with either spelling of the post's URL
NextForms ==
  \/ \E h \in Requests, ip \in Ips, url \in UrlForms, sessionId \in BodySessions :
       POST(h, ip, url, sessionId)
  \/ Serve

SpecForms == Init /\ [][NextForms]_vars

\* the server, its requests made by either of two clients
NextIps ==
  \/ \E h \in Requests, ip \in IpsTwo, url \in UrlsTwo, sessionId \in BodySessions :
       POST(h, ip, url, sessionId)
  \/ Serve

SpecIps == Init /\ [][NextIps]_vars

\* the form: bulk downloads are submitted, run and cancelled; the start number
\* is one the input allows (DownloadForm.tsx:408: at least 1)
NextBulk ==
  \/ \E text \in Texts, startNumber \in {1, 2} : Submit(text, startNumber)
  \/ \E outcome \in {"video", "image", "notok", "nomedia"} : Resolved(outcome)
  \/ \E ok \in BOOLEAN, deferred \in BOOLEAN : Proxied(ok, deferred)
  \/ TimerFires
  \/ \E ok \in BOOLEAN : ZipDone(ok)
  \/ cancelBulkDownload

\* the form runs in the browser, where the environment of the server is of
\* no matter: the server is taken with nothing set
InitBulk == Init /\ env = [INSTAGRAM_SESSION_ID |-> NoSession, RATE_LIMIT |-> 0]

SpecBulk == InitBulk /\ [][NextBulk]_vars

(* ----------------------- direct function calls ------------------------ *)
\* extractMediaId and extractMediaType (exported by lib/instagram.ts) are
\* applied to a reference
Classify(url) ==
  /\ call = NoCall
  /\ call' = [fn |-> "classify", url |-> url,
              id |-> extractMediaId(url), kind |-> extractMediaType(url)]
  /\ UNCHANGED <<now, env, requestCounts, mediaCache, pendingRequests, promises,
                 handlers, microtasks, observe, form>>

\* parseGraphQLMedia is applied to a shortcode_media object
ParseGraphQL(media) ==
  /\ call = NoCall
  /\ call' = [fn |-> "parseGraphQLMedia", input |-> media, out |-> parseGraphQLMedia(media)]
  /\ UNCHANGED <<now, env, requestCounts, mediaCache, pendingRequests, promises,
                 handlers, microtasks, observe, form>>

\* parseApiMedia is applied to items[0]
ParseApi(item) ==
  /\ call = NoCall
  /\ call' = [fn |-> "parseApiMedia", input |-> item, out |-> parseApiMedia(item)]
  /\ UNCHANGED <<now, env, requestCounts, mediaCache, pendingRequests, promises,
                 handlers, microtasks, observe, form>>

\* scrapeMediaPage reads the text of an ok response
Scrape(url, html) ==
  /\ call = NoCall
  /\ extractMediaId(url) # NoId
  /\ call' = [fn |-> "scrapeMediaPage", input |-> html,
              out |-> ScrapeResult(extractMediaId(url), html)]
  /\ UNCHANGED <<now, env, requestCounts, mediaCache, pendingRequests, promises,
                 handlers, microtasks, observe, form>>

\* host names, as the sequence of the pieces of their text: "evilinstagram.com"
\* is the text "evil" followed by the text "instagram.com"
ProxyHosts ==
  {<<"instagram.com">>,
   <<"www", ".", "instagram.com">>,
   <<"cdn", "instagram.com">>,
   <<"scontent", ".", "cdn", "instagram.com">>,
   <<"video", ".", "cdn", "instagram.com">>,
   <<"evil", "instagram.com">>,
   <<"instagram.com", ".", "evil.net">>,
   <<"evil.net">>}

\* the url parameter of a proxy request: absent, one that new URL() does not
\* parse, or a URL with a host
ProxyUrls ==
  {[given |-> FALSE, valid |-> FALSE, hostname |-> <<>>],
   [given |-> TRUE, valid |-> FALSE, hostname |-> <<>>]}
    \cup {[given |-> TRUE, valid |-> TRUE, hostname |-> h] : h \in ProxyHosts}

\* proxy/route.ts:13-18  allowedHosts
allowedHosts ==
  {<<"scontent", ".", "cdn", "instagram.com">>,
   <<"video", ".", "cdn", "instagram.com">>,
   <<"instagram.com">>,
   <<"cdn", "instagram.com">>}

\* String.prototype.endsWith
endsWith(text, suffix) ==
  /\ Len(suffix) <= Len(text)
  /\ SubSeq(text, Len(text) - Len(suffix) + 1, Len(text)) = suffix

\* proxy/route.ts:20-22  isAllowed
isAllowed(hostname) ==
  \E host \in allowedHosts : IF endsWith(hostname, host) THEN TRUE ELSE hostname = host

\* proxy/route.ts:3-56  GET: the status of the response and whether the URL
\* was fetched; upstream is the status of the response to the fetch, 0 if the
\* fetch rejects
ProxyResponse(url, upstream) ==
  IF ~url.given THEN [status |-> 400, error |-> "URL parameter required", fetched |-> FALSE]
  ELSE IF ~url.valid THEN [status |-> 500, error |-> "Proxy request failed", fetched |-> FALSE]
  ELSE IF ~isAllowed(url.hostname)
  THEN [status |-> 400, error |-> "Invalid media URL", fetched |-> FALSE]
  ELSE IF upstream = 0 THEN [status |-> 500, error |-> "Proxy request failed", fetched |-> TRUE]
  ELSE IF upstream # 200
  THEN [status |-> upstream, error |-> "Failed to fetch media", fetched |-> TRUE]
  ELSE [status |-> 200, error |-> "", fetched |-> TRUE]

\* the proxy route is requested
ProxyGET(url, upstream) ==
  /\ call = NoCall
  /\ call' = [fn |-> "proxy GET", input |-> url, out |-> ProxyResponse(url, upstream)]
  /\ UNCHANGED <<now, env, requestCounts, mediaCache, pendingRequests, promises,
                 handlers, microtasks, observe, form>>

\* the call returns
Return ==
  /\ call # NoCall
  /\ call' = NoCall
  /\ UNCHANGED <<now, env, requestCounts, mediaCache, pendingRequests, promises,
                 handlers, microtasks, observe, form>>

NextCalls ==
  \/ \E url \in TestUrls : Classify(url)
  \/ \E media \in GraphQLInputs : ParseGraphQL(media)
  \/ \E item \in ApiInputs : ParseApi(item)
  \/ \E url \in Urls, html \in Pages : Scrape(url, html)
  \/ \E url \in ProxyUrls, upstream \in {200, 404, 0} : ProxyGET(url, upstream)
  \/ Return

\* the functions of lib/instagram.ts and the proxy route called one at a time
SpecCalls == InitObserved /\ [][NextCalls]_vars

(* ============================== claims ================================ *)
\* request h runs route.ts:87-130 in this step
Looks(h) == handlers[h].pc = "parsed" /\ handlers'[h].pc # "parsed"

\* this step calls getMediaInfo (route.ts:118)
ChainStarts == Len(promises') = Len(promises) + 1

\* a chain for cacheKey is executing
Executing(cacheKey) ==
  {p \in DOMAIN promises : promises[p].key = cacheKey /\ ~promises[p].chain.done}

\* the requests that awaited promise p and have been answered
AnsweredBy(p) ==
  {h \in Requests : handlers[h].promise = p /\ handlers[h].pc = "done"}

(* C1: a request that reaches the in-flight lookup while a chain for its    *)
(* key is executing starts no chain of its own and awaits that chain, and   *)
(* all requests that awaited one chain are answered with that chain's       *)
(* result: the same status and the same outcome.                            *)
C1_SameOutcome ==
  \A p \in DOMAIN promises :
    \A h \in AnsweredBy(p) :
      /\ handlers[h].resp.result = promises[p].chain.value
      /\ ~handlers[h].resp.cached
      /\ \A g \in AnsweredBy(p) : handlers[g].resp = handlers[h].resp

C1_JoinsStep ==
  \A h \in Requests :
    (Looks(h) /\ Executing(KeyOf(h)) # {}) =>
      /\ ~ChainStarts
      /\ \A p \in DOMAIN promises : promises'[p].chain = promises[p].chain
      /\ handlers'[h].pc = "await"
      /\ handlers'[h].promise \in Executing(KeyOf(h))
      /\ Cardinality(Executing(KeyOf(h))) = 1

\* C1: concurrent requests of one key share one chain and one outcome: every
\* step is a C1_JoinsStep and every state satisfies C1_SameOutcome
C1_Deduplicated == [][C1_JoinsStep]_vars /\ []C1_SameOutcome

\* two requests were answered from one chain, started once
C1_Witness ==
  /\ Len(promises) = 1
  /\ Cardinality(AnsweredBy(1)) >= 2
  /\ \E h \in AnsweredBy(1) : promises[1].by # h

(* C2: at most one chain per key is executing at any time; a chain for a    *)
(* key is started only when no chain for the key is executing and every     *)
(* earlier successful chain for the key completed more than the TTL ago,    *)
(* its cache entry written when it completed; and when the registry entry   *)
(* of a successful chain is gone and the cache not yet written, the next    *)
(* job is the cache write of the request that started the chain, so no      *)
(* lookup runs in between.                                                  *)
C2_OneAtATime ==
  /\ \A p, q \in DOMAIN promises :
       (p # q /\ promises[p].key = promises[q].key) =>
         (promises[p].chain.done \/ promises[q].chain.done)
  /\ \A p \in DOMAIN promises :
       ( /\ promises[p].chain.done
         /\ promises[p].chain.value.success
         /\ handlers[promises[p].by].pc # "done"
         /\ promises[p].key \notin DOMAIN pendingRequests ) =>
           /\ microtasks # <<>>
           /\ Head(microtasks) = ContJob(promises[p].by, p)

C2_StartStep ==
  ChainStarts =>
    LET cacheKey == promises'[Len(promises')].key
    IN /\ Executing(cacheKey) = {}
       /\ \A p \in DOMAIN promises :
            (promises[p].key = cacheKey /\ promises[p].chain.value.success) =>
              /\ handlers[promises[p].by].pc = "done"
              /\ now > handlers[promises[p].by].doneAt + CACHE_TTL

\* C2: at most one chain per key at a time, and none started while the entry
\* of a successful one is live: every step is a C2_StartStep and every state
\* satisfies C2_OneAtATime
C2_OneChainPerWindow == [][C2_StartStep]_vars /\ []C2_OneAtATime

\* a second chain for a key has run, after the entry of the first expired
C2_Witness ==
  /\ Len(promises) = 2
  /\ promises[1].key = promises[2].key
  /\ promises[1].chain.value.success
  /\ promises[2].chain.done

(* C3: a request whose body carries no sessionId is never answered, from    *)
(* the cache or from a chain another request started, with media that were  *)
(* fetched with a session cookie.                                           *)
C3_NoCredentialedResult ==
  \A h \in Requests :
    ( /\ handlers[h].pc = "done"
      /\ handlers[h].resp.status = 200
      /\ handlers[h].sessionId = NoSession
      /\ \/ handlers[h].resp.cached
         \/ handlers[h].promise # 0 /\ promises[handlers[h].promise].by # h ) =>
        \A i \in DOMAIN handlers[h].resp.result.media :
          handlers[h].resp.result.media[i].session = NoSession

(* C4: a lookup answers from the cache only from an entry that has not      *)
(* expired; a request that finds the expired entry of its key deletes it    *)
(* and starts a chain; a request that finds no usable entry awaits the      *)
(* chain registered for its key.                                            *)
C4_LookupStep ==
  \A h \in Requests :
    Looks(h) =>
      LET cacheKey == KeyOf(h)
          usable == /\ cacheKey \in DOMAIN mediaCache
                    /\ ~(now > mediaCache[cacheKey].expires)
      IN /\ handlers'[h].resp.cached => usable
         /\ (DownloadRequestSchema(handlers[h].url) /\ ~usable) =>
              /\ handlers'[h].pc = "await"
              /\ cacheKey \notin DOMAIN mediaCache'
              /\ cacheKey \in DOMAIN pendingRequests'
              /\ pendingRequests'[cacheKey] = handlers'[h].promise
         /\ (DownloadRequestSchema(handlers[h].url) /\ cacheKey \in DOMAIN mediaCache
               /\ ~usable) =>
              /\ ChainStarts
              /\ promises'[Len(promises')].by = h

\* C4: no expired entry is returned, and the request that finds one re-runs
\* the chain: every step is a C4_LookupStep
C4_NoExpiredEntryReturned == [][C4_LookupStep]_vars

\* a request found the entry expired, not yet swept, and started a chain
C4_Witness ==
  /\ Len(promises) = 2
  /\ promises[1].key = promises[2].key
  /\ promises[1].chain.value.success
  /\ ~promises[2].chain.done
  /\ mediaCache = EmptyMap
  /\ handlers[promises[2].by].pc = "await"
  /\ now = handlers[promises[1].by].doneAt + CACHE_TTL + 1

\* request g ran a chain of its own for the key of h and was answered before
\* POST was called for h, no more than the TTL before this instant
RanBefore(g, h) ==
  /\ g \in handlers[h].after
  /\ KeyOf(g) = KeyOf(h)
  /\ handlers[g].promise # 0
  /\ promises[handlers[g].promise].by = g
  /\ ~(now > handlers[g].doneAt + CACHE_TTL)

(* C5, as claimed: when a request ran a chain and was answered, a later     *)
(* request of the same key that looks up within the TTL starts no chain     *)
(* and is answered with the same outcome.                                   *)
C5_AsClaimedStep ==
  \A h \in Requests : \A g \in Requests :
    (Looks(h) /\ RanBefore(g, h)) =>
      /\ ~ChainStarts
      /\ handlers'[h].pc = "done"
      /\ handlers'[h].resp.result = handlers[g].resp.result

\* C5, as claimed: every step is a C5_AsClaimedStep
C5_AsClaimed == [][C5_AsClaimedStep]_vars

(* C5, amended: when a request ran a chain and was answered with a          *)
(* success, a later request of the same key that looks up within the TTL    *)
(* is answered at once from the cache with the identical outcome, and no    *)
(* chain is started or awaited for it.                                      *)
C5_IdempotentStep ==
  \A h \in Requests : \A g \in Requests :
    (Looks(h) /\ RanBefore(g, h) /\ handlers[g].resp.result.success) =>
      /\ ~ChainStarts
      /\ promises' = promises
      /\ handlers'[h].pc = "done"
      /\ handlers'[h].promise = 0
      /\ handlers'[h].resp.cached
      /\ handlers'[h].resp.result = handlers[g].resp.result

\* C5, amended: after a success the second of two sequential requests within
\* the TTL is answered identically and without a chain: every step is a
\* C5_IdempotentStep
C5_Idempotent == [][C5_IdempotentStep]_vars

\* the second of two sequential requests was answered from the entry the
\* first wrote, some minutes later
C5_Witness ==
  \E g, h \in Requests :
    /\ handlers[h].pc = "done"
    /\ g \in handlers[h].after
    /\ KeyOf(g) = KeyOf(h)
    /\ handlers[g].promise # 0
    /\ handlers[g].resp.result.success
    /\ handlers[h].resp.cached
    /\ handlers[h].resp.result = handlers[g].resp.result
    /\ handlers[h].doneAt > handlers[g].doneAt
    /\ Len(promises) = 1

(* C6: every cache entry holds a success; an entry is written only with     *)
(* expires = the time of the write + CACHE_TTL; the continuation of a       *)
(* request whose chain failed leaves the cache as it is; and a request      *)
(* that follows a failed request of its key, no chain for the key having    *)
(* succeeded, is not answered from the cache: it starts a chain, or awaits  *)
(* the one registered for the key.                                          *)
C6_OnlySuccess ==
  \A cacheKey \in DOMAIN mediaCache :
    /\ mediaCache[cacheKey].data.success
    /\ mediaCache[cacheKey].data.media # <<>>
    /\ mediaCache[cacheKey].expires <= now + CACHE_TTL

FailedBefore(g, h) ==
  /\ g \in handlers[h].after
  /\ KeyOf(g) = KeyOf(h)
  /\ handlers[g].promise # 0
  /\ ~handlers[g].resp.result.success
  /\ \A p \in DOMAIN promises :
       promises[p].key = KeyOf(h) => ~promises[p].chain.value.success

C6_Step ==
  /\ \A cacheKey \in DOMAIN mediaCache' :
       (cacheKey \notin DOMAIN mediaCache \/ mediaCache'[cacheKey] # mediaCache[cacheKey]) =>
         /\ mediaCache'[cacheKey].data.success
         /\ mediaCache'[cacheKey].expires = now + CACHE_TTL
  /\ \A h \in Requests :
       ( /\ handlers[h].pc = "await"
         /\ handlers'[h].pc = "done"
         /\ ~handlers'[h].resp.result.success ) => mediaCache' = mediaCache
  /\ \A h \in Requests : \A g \in Requests :
       (Looks(h) /\ FailedBefore(g, h)) =>
         /\ handlers'[h].pc = "await"
         /\ \/ ChainStarts /\ promises'[Len(promises')].by = h
            \/ pendingGet(KeyOf(h)) # 0

\* C6: entries are successes expiring CACHE_TTL after their write, and a
\* failure is never cached: every step is a C6_Step and every state satisfies
\* C6_OnlySuccess
C6_FailureNotCached == [][C6_Step]_vars /\ []C6_OnlySuccess

\* after a failed request of the key, the next one started a chain, which
\* succeeded and was cached
C6_Witness ==
  /\ Len(promises) = 2
  /\ promises[1].key = promises[2].key
  /\ promises[1].chain.done
  /\ ~promises[1].chain.value.success
  /\ promises[1].by \in handlers[promises[2].by].after
  /\ promises[2].key \in DOMAIN mediaCache
  /\ mediaCache[promises[2].key].data = promises[2].chain.value

(* C7: the registry entry of a settled chain, failed or not, is removed by  *)
(* a job that is queued the moment the chain settles; so whenever no job    *)
(* is queued and no chain is executing the registry is empty, and a         *)
(* request that awaits a settled chain has its continuation queued.         *)
C7_RegistryCleared ==
  /\ \A cacheKey \in DOMAIN pendingRequests :
       LET p == pendingRequests[cacheKey]
       IN /\ p \in DOMAIN promises
          /\ promises[p].key = cacheKey
          /\ promises[p].chain.done =>
               \E i \in DOMAIN microtasks : microtasks[i] = FinallyJob(p)
  /\ (microtasks = <<>> /\ \A p \in DOMAIN promises : promises[p].chain.done) =>
       DOMAIN pendingRequests = {}
  /\ \A h \in Requests :
       (handlers[h].pc = "await" /\ promises[handlers[h].promise].chain.done) =>
         \E i \in DOMAIN microtasks : microtasks[i] = ContJob(h, handlers[h].promise)

\* a chain failed, its requests are answered and the registry is empty
C7_Witness ==
  /\ \E p \in DOMAIN promises :
       /\ promises[p].chain.done
       /\ ~promises[p].chain.value.success
       /\ handlers[promises[p].by].pc = "done"
  /\ \A p \in DOMAIN promises : promises[p].chain.done
  /\ microtasks = <<>>
  /\ DOMAIN pendingRequests = {}

\* the strategies that have returned in chain c number n, and the last one
Attempts(c) == Len(c.log)
LastAttempt(c) == c.log[Len(c.log)]

(* C8: within one resolution the strategies return in the order of the      *)
(* chain, each one attempted only after all before it failed; a success is  *)
(* the last attempt and its outcome is the result; a resolution that fails  *)
(* has attempted every strategy; a finished resolution attempts nothing.    *)
C8_InOrder ==
  \A p \in DOMAIN promises :
    LET c == promises[p].chain
        chain == Chain(c.sid)
    IN /\ Attempts(c) <= Len(chain)
       /\ \A i \in 1..Attempts(c) : c.log[i].strategy = chain[i]
       /\ \A i \in 1..(Attempts(c) - 1) : ~c.log[i].ok
       /\ ~c.done => /\ c.pos = Attempts(c) + 1
                     /\ \A i \in 1..Attempts(c) : ~c.log[i].ok
       /\ c.value.success <=> (c.done /\ Attempts(c) > 0 /\ LastAttempt(c).ok)
       /\ c.value.success => c.value = Success(LastAttempt(c).strategy, c.sid)
       /\ (c.done /\ ~c.value.success /\ extractMediaId(handlers[promises[p].by].url) # NoId) =>
            /\ Attempts(c) = Len(chain)
            /\ c.value = AllFailed(c.sid)

C8_Step ==
  \A p \in DOMAIN promises :
    LET c == promises[p].chain
        d == promises'[p].chain
    IN /\ c.done => d = c
       /\ Attempts(d) <= Attempts(c) + 1
       /\ d.fetches <= c.fetches + 1
       /\ d.done => d.fetches = c.fetches

\* C8: the strategies run in a fixed order, one after the failure of the
\* other, and stop at the first success: every step is a C8_Step and every
\* state satisfies C8_InOrder
C8_FixedOrderShortCircuit == [][C8_Step]_vars /\ []C8_InOrder

\* a resolution in which the third strategy succeeded after two failed
C8_Witness ==
  \E p \in DOMAIN promises :
    LET c == promises[p].chain
    IN /\ c.done
       /\ c.value.success
       /\ Attempts(c) = 3
       /\ ~c.log[1].ok
       /\ ~c.log[2].ok
       /\ handlers[promises[p].by].pc = "done"

\* the strategies chain c has attempted so far, the outstanding one included
Attempted(c) ==
  [i \in 1..(IF c.done THEN Attempts(c) ELSE c.pos) |-> Chain(c.sid)[i]]

IsPrefix(s, t) == Len(s) <= Len(t) /\ \A i \in 1..Len(s) : s[i] = t[i]

(* C9, as claimed: the internal API first and only with a credential, then  *)
(* the structured endpoint (also without a credential), then scraping,      *)
(* then the JSON endpoint.                                                   *)
C9_AsClaimed ==
  \A p \in DOMAIN promises :
    LET c == promises[p].chain
    IN IsPrefix(Attempted(c),
                IF c.sid # NoSession
                THEN <<"api", "graphql", "scrape", "json">>
                ELSE <<"graphql", "scrape", "json">>)

(* C9, amended: with a credential the structured query first, then the      *)
(* internal API, then scraping, then the JSON endpoint; without one only    *)
(* scraping and then the JSON endpoint: neither the structured query nor    *)
(* the internal API is attempted for a request without a credential.        *)
C9_ChainOrder ==
  \A p \in DOMAIN promises :
    LET c == promises[p].chain
    IN /\ IsPrefix(Attempted(c),
                   IF c.sid # NoSession
                   THEN <<"graphql", "api", "scrape", "json">>
                   ELSE <<"scrape", "json">>)
       /\ \A i \in 1..Attempts(c) : c.log[i].strategy = Attempted(c)[i]
       /\ c.sid = NoSession =>
            \A i \in 1..Len(Attempted(c)) : Attempted(c)[i] \notin {"graphql", "api"}
       /\ (c.done /\ ~c.value.success) =>
            Attempts(c) = IF c.sid # NoSession THEN 4 ELSE 2

\* a resolution with a credential in which all four strategies failed
C9_Witness ==
  \E p \in DOMAIN promises :
    LET c == promises[p].chain
    IN /\ c.done
       /\ ~c.value.success
       /\ c.sid # NoSession
       /\ Attempts(c) = 4
       /\ c.log[1].strategy = "graphql"
       /\ c.log[2].strategy = "api"

(* C10: a strategy in which an error was thrown has failed and, unless it   *)
(* is the last one, the next strategy is attempted; the result is a         *)
(* success whenever a later strategy succeeds; and no thrown error is the   *)
(* result of the resolution or the answer to a request: the catch of POST  *)
(* answers only a request whose body could not be read, before any chain.   *)
C10_ThrowIsFailure ==
  /\ \A p \in DOMAIN promises :
       LET c == promises[p].chain
       IN /\ \A i \in 1..Attempts(c) :
               c.log[i].threw =>
                 /\ ~c.log[i].ok
                 /\ i < Len(Chain(c.sid)) =>
                      IF Attempts(c) > i
                      THEN c.log[i + 1].strategy = Chain(c.sid)[i + 1]
                      ELSE ~c.done /\ c.pos = i + 1
                 /\ i = Len(Chain(c.sid)) => c.done /\ c.value = AllFailed(c.sid)
          /\ (Attempts(c) > 0 /\ LastAttempt(c).ok) => c.done /\ c.value.success
          /\ c.value.error # "thrown"
  /\ \A h \in Requests :
       /\ handlers[h].resp.result.error # "thrown"
       /\ handlers[h].resp.status \in {0, 200, 400, 429, 500}
       /\ handlers[h].resp.status = 500 => handlers[h].promise = 0

\* a request answered with the success of a strategy that followed one in
\* which an error was thrown
C10_Witness ==
  \E p \in DOMAIN promises :
    LET c == promises[p].chain
    IN /\ c.done
       /\ c.value.success
       /\ Attempts(c) >= 2
       /\ c.log[Attempts(c) - 1].threw
       /\ handlers[promises[p].by].pc = "done"
       /\ handlers[promises[p].by].resp.status = 200
       /\ handlers[promises[p].by].resp.result = c.value

\* every strategy of chain c was attempted and failed
AllStrategiesFailed(c) ==
  /\ c.done
  /\ Attempts(c) = Len(Chain(c.sid))
  /\ \A i \in 1..Attempts(c) : ~c.log[i].ok

(* C11, as claimed: when every strategy failed the outcome has the message  *)
(* chosen by credential presence, and it carries a failure reason of each   *)
(* strategy.                                                                *)
C11_AsClaimed ==
  \A p \in DOMAIN promises :
    LET c == promises[p].chain
    IN AllStrategiesFailed(c) =>
         /\ ~c.value.success
         /\ \A i \in 1..Attempts(c) :
              \E m \in StrategyErrors(c.log[i].strategy, c.log[i].resp) :
                m \in MessageParts(c.value)

(* C11, amended: when every strategy failed the outcome is a failure whose  *)
(* only message is one of two fixed texts chosen by credential presence;    *)
(* the failure reasons of the strategies are not part of the outcome.       *)
C11_CredentialHintOnly ==
  \A p \in DOMAIN promises :
    LET c == promises[p].chain
    IN AllStrategiesFailed(c) =>
         /\ ~c.value.success
         /\ c.value.media = <<>>
         /\ c.value.error =
              IF c.sid # NoSession
              THEN "Could not fetch media. The post may be private or the session may have expired."
              ELSE "Could not fetch media. Try adding your Instagram Session ID for private content."
         /\ \A i \in 1..Attempts(c) :
              \A m \in StrategyErrors(c.log[i].strategy, c.log[i].resp) :
                m \notin MessageParts(c.value)
         /\ \A h \in AnsweredBy(p) :
              handlers[h].resp.status = 400 /\ handlers[h].resp.result = c.value

\* a request with a session answered after all four strategies failed for
\* four different reasons
C11_Witness ==
  \E p \in DOMAIN promises :
    LET c == promises[p].chain
    IN /\ AllStrategiesFailed(c)
       /\ c.sid # NoSession
       /\ c.log[1].resp = "ratelimited"
       /\ c.log[2].resp = "nomedia"
       /\ c.log[3].resp = "neterror"
       /\ c.log[4].resp = "throw"
       /\ AnsweredBy(p) # {}

\* the reference matches none of the post, reel and story patterns
Unclassifiable(url) == extractMediaId(url) = NoId

(* C12: a request for a reference that matches no pattern is answered with  *)
(* a failure (status 400) in the job that reads its body: getMediaInfo is   *)
(* not called, so no fetch is issued, and the registry and the cache stay   *)
(* as they are; no chain is ever started for such a reference.              *)
C12_Step ==
  \A h \in Requests :
    (Looks(h) /\ Unclassifiable(handlers[h].url)) =>
      /\ handlers'[h].pc = "done"
      /\ handlers'[h].resp.status = 400
      /\ ~handlers'[h].resp.result.success
      /\ handlers'[h].resp.result.error = "Invalid Instagram URL"
      /\ handlers'[h].promise = 0
      /\ promises' = promises
      /\ pendingRequests' = pendingRequests
      /\ mediaCache' = mediaCache

C12_NoChain ==
  \A p \in DOMAIN promises :
    /\ ~Unclassifiable(handlers[promises[p].by].url)
    /\ promises[p].chain.fetches >= 1

MarkerPlaces(url) ==
  {i \in 1..(Len(url) - 1) : url[i] \in KindMarkers \cup {"stories"}}

\* the kind a marker stands for
KindOfMarker(marker) ==
  CASE marker = "p" -> "post"
    [] marker \in {"reel", "reels"} -> "reel"
    [] marker = "stories" -> "story"
    [] OTHER -> NoKind

(* C13: for a reference with exactly one kind marker, /p/<id> gives kind    *)
(* post and /reel/<id>, /reels/<id> kind reel, with the segment after the   *)
(* marker as id; /stories/<handle>/<digits> gives kind story with the       *)
(* digits as id; and whenever an id is returned, the kind is the kind of    *)
(* the one marker.                                                          *)
C13_Classification ==
  (call.fn = "classify" /\ Cardinality(MarkerPlaces(call.url)) = 1) =>
    LET url == call.url
        i == CHOOSE j \in MarkerPlaces(url) : TRUE
    IN /\ (url[i] \in KindMarkers /\ url[i + 1] # "") =>
            /\ call.id = url[i + 1]
            /\ call.kind = IF url[i] = "p" THEN "post" ELSE "reel"
       /\ (url[i] = "stories" /\ Len(url) >= i + 2 /\ url[i + 1] # ""
             /\ url[i + 2] \in NumericIds) =>
            /\ call.id = url[i + 2]
            /\ call.kind = "story"
       /\ call.kind = KindOfMarker(url[i])
       /\ call.id # NoId =>
            call.id = IF url[i] = "stories" THEN url[i + 2] ELSE url[i + 1]

\* a story reference has been classified
C13_Witness ==
  /\ call.fn = "classify"
  /\ call.url = <<"stories", "A", "1">>
  /\ Cardinality(MarkerPlaces(call.url)) = 1
  /\ call.id = "1"
  /\ call.kind = "story"

\* the calls that produce a DownloadResult from an upstream response
Parsers == {"parseGraphQLMedia", "parseApiMedia", "scrapeMediaPage"}

(* C14: a result with success carries at least one media asset, and an      *)
(* extraction that yields no asset is returned as a failure with a          *)
(* message: for parseGraphQLMedia, parseApiMedia and scrapeMediaPage.       *)
C14_SuccessHasMedia ==
  call.fn \in Parsers =>
    /\ call.out.success => Len(call.out.media) >= 1
    /\ ~call.out.success => (call.out.media = <<>> /\ call.out.error # "")
    /\ (call.fn = "parseGraphQLMedia" /\ GraphQLResult(call.input) = <<>>) =>
         ~call.out.success
    /\ (call.fn = "parseApiMedia" /\ call.input.defined /\ ApiMedia(call.input) = <<>>) =>
         ~call.out.success
    /\ (call.fn = "scrapeMediaPage" /\ DOMAIN call.input = {}) => ~call.out.success

\* a carousel without children was parsed, and reported as a failure
C14_Witness ==
  /\ call.fn = "parseGraphQLMedia"
  /\ call.input.typename = "GraphSidecar"
  /\ call.input.edges = Defined(<<>>)
  /\ ~call.out.success
  /\ call.out.error = "Could not parse media"

\* the children of the carousel the call parsed, and the type each child's
\* own fields give it
ChildrenOf(c) ==
  IF c.fn = "parseGraphQLMedia" THEN c.input.edges.items ELSE c.input.carousel_media.items
OwnType(c, child) ==
  IF c.fn = "parseGraphQLMedia"
  THEN IF child.is_video THEN "video" ELSE "image"
  ELSE IF HasVideo(child) THEN "video" ELSE "image"
OwnId(c, child) == IF c.fn = "parseGraphQLMedia" THEN child.id ELSE child.pk

\* the call parsed a response that describes a carousel of at least one
\* child, each child a video or an image
ParsedCarousel(c) ==
  IF c.fn = "parseGraphQLMedia"
  THEN c.input.typename = "GraphSidecar" /\ c.input.edges.defined
         /\ c.input.edges.items # <<>>
  ELSE /\ c.fn = "parseApiMedia"
       /\ c.input.defined
       /\ c.input.carousel_media.defined
       /\ c.input.carousel_media.items # <<>>
       /\ \A i \in DOMAIN c.input.carousel_media.items :
            HasVideo(c.input.carousel_media.items[i])
              \/ HasImage(c.input.carousel_media.items[i])

(* C15: a response describing a carousel of n children is parsed into a     *)
(* success with n assets, the i-th being the i-th child with the type its   *)
(* own fields give it.                                                      *)
C15_CarouselEnumerated ==
  ParsedCarousel(call) =>
    /\ call.out.success
    /\ Len(call.out.media) = Len(ChildrenOf(call))
    /\ \A i \in DOMAIN call.out.media :
         /\ call.out.media[i].id = OwnId(call, ChildrenOf(call)[i])
         /\ call.out.media[i].type = OwnType(call, ChildrenOf(call)[i])

(* C16: a strategy whose fetch is answered with the rate-limit status       *)
(* issues it again: it has made MAX_ATTEMPTS fetches before a rate-limit    *)
(* response ends its attempt.                                               *)
C16_RetriedOnRateLimit ==
  \A p \in DOMAIN promises :
    \A i \in DOMAIN promises[p].chain.log :
      promises[p].chain.log[i].resp = "ratelimited" =>
        promises[p].chain.log[i].calls >= MAX_ATTEMPTS

(* C17: a strategy whose fetch fails at the transport level issues it       *)
(* again: it has made MAX_ATTEMPTS fetches before the transport error is    *)
(* reported as its failure.                                                 *)
C17_RetriedOnTransportError ==
  \A p \in DOMAIN promises :
    \A i \in DOMAIN promises[p].chain.log :
      (promises[p].chain.log[i].resp = "neterror" /\ ~promises[p].chain.log[i].ok) =>
        promises[p].chain.log[i].calls >= MAX_ATTEMPTS

(* C18: every request that awaits a resolution is eventually answered, and  *)
(* every in-flight entry is eventually removed, whether or not the          *)
(* upstream responds.                                                       *)
C18_EventuallySettles ==
  /\ \A h \in Requests : (handlers[h].pc = "await") ~> (handlers[h].pc = "done")
  /\ \A cacheKey \in {getCacheKey(url, sessionId) : url \in Urls, sessionId \in BodySessions} :
       (cacheKey \in DOMAIN pendingRequests) ~> (cacheKey \notin DOMAIN pendingRequests)

(* C19: the key of the cache and of the registry is made of the request's   *)
(* URL as written and of the presence of a credential.  A request that      *)
(* reaches the lookups starts no chain exactly when an entry for its own    *)
(* URL and credential presence is in flight or cached and not expired; an   *)
(* entry for another spelling of the same post's URL does not count.        *)
\* route.ts:98-100  the URL of request h as written, and whether the session
\* it resolves with is present
UrlKey(h) ==
  <<handlers[h].url,
    IF EffectiveSession(handlers[h].sessionId) # NoSession THEN "auth" ELSE "public">>

\* the keys with an entry in the registry or a live entry in the cache
LiveKeys == DOMAIN pendingRequests \cup {k \in DOMAIN mediaCache : CacheHit(k)}

\* as claimed: an entry of the same content id and credential presence is
\* shared, however the URL is written
C19_AsClaimedStep ==
  \A h \in Requests :
    (/\ Looks(h)
     /\ \E k \in LiveKeys :
          /\ extractMediaId(k[1]) = extractMediaId(handlers[h].url)
          /\ k[2] = UrlKey(h)[2])
    => ~ChainStarts

\* C19 as claimed: requests of one content id and one credential presence
\* share the entries, so the later one starts no chain
C19_AsClaimed == [][C19_AsClaimedStep]_vars

C19_ByUrlStep ==
  \A h \in Requests :
    (Looks(h) /\ DownloadRequestSchema(handlers[h].url)) =>
      (ChainStarts <=> UrlKey(h) \notin LiveKeys)

C19_KeyedByUrl ==
  \A p \in DOMAIN promises : promises[p].key = UrlKey(promises[p].by)

\* C19: requests share the entries exactly when their URLs as written and
\* their credential presence are equal: every step is a C19_ByUrlStep and
\* every chain is registered under the URL of the request that started it
C19_SharedByUrl == [][C19_ByUrlStep]_vars /\ []C19_KeyedByUrl

\* two requests with the same URL and credential presence were answered from
\* one chain, while the other spelling of the URL has no entry
C19_Witness ==
  /\ Len(promises) = 1
  /\ handlers[1].pc = "done" /\ handlers[2].pc = "done"
  /\ handlers[1].promise = 1
  /\ handlers[2].promise = 1 \/ handlers[2].resp.cached
  /\ handlers[1].url = <<"p", "A", "">> /\ handlers[2].url = <<"p", "A", "">>
  /\ UrlKey(1) = UrlKey(2)

(* C20: neither getMediaInfo nor POST throws: a chain that has ended has    *)
(* returned a DownloadResult, { success: true, media } with at least one    *)
(* item or { success: false, error } with a message, and every answered     *)
(* request has a response.  POST answers a success with status 200 and      *)
(* { success: true, media, cached }, and a failure with status 400, 429 or  *)
(* 500 and { error: message }, a body without a success field.              *)
\* the requests that have been answered with a failure
Refused == {h \in Requests : handlers[h].pc = "done" /\ handlers[h].resp.status # 200}

\* C20 as claimed: every failure is reported as { success: false, error }
C20_AsClaimed ==
  \A h \in Refused :
    /\ DOMAIN ResponseBody(handlers[h].resp) = {"success", "error"}
    /\ ResponseBody(handlers[h].resp).success = FALSE

C20_ResultTyped ==
  \A p \in DOMAIN promises :
    promises[p].chain.done =>
      IF promises[p].chain.value.success
      THEN promises[p].chain.value.media # <<>>
      ELSE promises[p].chain.value.media = <<>> /\ promises[p].chain.value.error # ""

C20_BodyTyped ==
  \A h \in Returned :
    IF handlers[h].resp.status = 200
    THEN /\ DOMAIN ResponseBody(handlers[h].resp) = {"success", "media", "cached"}
         /\ ResponseBody(handlers[h].resp).success = TRUE
         /\ ResponseBody(handlers[h].resp).media # <<>>
    ELSE /\ handlers[h].resp.status \in {400, 429, 500}
         /\ DOMAIN ResponseBody(handlers[h].resp) = {"error"}
         /\ ResponseBody(handlers[h].resp).error # ""

\* C20: every ended chain returned a typed DownloadResult, and every answer
\* of POST is { success: true, media, cached } or, with a failure status,
\* { error }
C20_TypedOutcome == C20_ResultTyped /\ C20_BodyTyped

\* a chain ended with a failure and the request was answered 400 with the
\* chain's message as the body's only field
C20_Witness ==
  /\ handlers[1].pc = "done"
  /\ handlers[1].promise = 1
  /\ promises[1].chain.done
  /\ ~promises[1].chain.value.success
  /\ handlers[1].resp.status = 400
  /\ ResponseBody(handlers[1].resp) = [error |-> promises[1].chain.value.error]

(* C21: scrapeMediaPage tries its five patterns in the order video_url,     *)
(* contentUrl, og:video, display_url, og:image and takes the first that     *)
(* matches: for a page in which any of them match, the result holds one     *)
(* MediaInfo, made of the text the earliest matching pattern captured, a    *)
(* video for the first three patterns and an image for the last two.        *)
\* the place in ScrapePatterns of the earliest pattern matching in html
FirstMatching(html) == CHOOSE i \in Matching(html) : \A j \in Matching(html) : i <= j

\* C21: the result of scraping a page with a match is the single asset of the
\* earliest matching pattern, with that pattern's type
C21_FirstPatternWins ==
  (call.fn = "scrapeMediaPage" /\ Matching(call.input) # {}) =>
    /\ call.out.success
    /\ Len(call.out.media) = 1
    /\ call.out.media[1].url.field = ScrapePatterns[FirstMatching(call.input)]
    /\ call.out.media[1].url.text =
         ScrapeUrl(ScrapePatterns[FirstMatching(call.input)],
                   call.input[ScrapePatterns[FirstMatching(call.input)]])
    /\ call.out.media[1].type = IF FirstMatching(call.input) <= 3 THEN "video" ELSE "image"

\* a page with both Open Graph tags and the display_url field was scraped:
\* the asset is the og:video one, a video
C21_Witness ==
  /\ call.fn = "scrapeMediaPage"
  /\ DOMAIN call.input = {"og:video", "display_url", "og:image"}
  /\ call.input["og:video"] # call.input["display_url"]
  /\ call.out.media = <<ScrapedInfo("A", "og:video", call.input["og:video"])>>
  /\ call.out.media[1].type = "video"

(* C22: the url of the asset scrapeMediaPage returns holds no ampersand     *)
(* written as an HTML entity and no slash escaped with a backslash,         *)
(* whichever pattern captured it.                                           *)
C22_UrlUnescaped ==
  (call.fn = "scrapeMediaPage" /\ call.out.success) =>
    \A i \in DOMAIN call.out.media[1].url.text :
      call.out.media[1].url.text[i] \notin {"&amp;", "\\/"}

(* C23: a request whose lookup finds an entry of its key that has not       *)
(* expired is answered in that step with the entry's data, status 200 and   *)
(* cached: true; the step starts no chain and changes no chain, and leaves  *)
(* pendingRequests and mediaCache, the entry's expiry included, as they     *)
(* were.                                                                    *)
C23_HitStep ==
  \A h \in Requests :
    ( /\ Looks(h)
      /\ DownloadRequestSchema(handlers[h].url)
      /\ KeyOf(h) \in DOMAIN mediaCache
      /\ ~(now > mediaCache[KeyOf(h)].expires) ) =>
        /\ handlers'[h].pc = "done"
        /\ handlers'[h].resp =
             [status |-> 200, result |-> mediaCache[KeyOf(h)].data, cached |-> TRUE]
        /\ promises' = promises
        /\ pendingRequests' = pendingRequests
        /\ mediaCache' = mediaCache

\* C23: a cache hit answers at once and changes neither the chains, nor the
\* registry, nor the cache: every step is a C23_HitStep
C23_HitChangesNothing == [][C23_HitStep]_vars

\* a request was answered from the cache some time after the entry was
\* written, and the entry still expires CACHE_TTL after it was written
C23_Witness ==
  \E h \in Requests :
    /\ handlers[h].pc = "done"
    /\ handlers[h].resp.cached
    /\ KeyOf(h) \in DOMAIN mediaCache
    /\ mediaCache[KeyOf(h)].data = handlers[h].resp.result
    /\ mediaCache[KeyOf(h)].expires < handlers[h].doneAt + CACHE_TTL

(* C24: a response that is not ok, and is not a rate-limit response, is     *)
(* never answered by fetching the same URL again.  tryGraphQLEndpoint,      *)
(* scrapeMediaPage and tryJsonEndpoint fail with it after their one fetch;  *)
(* tryApiEndpoint answers such a response to its first fetch with one       *)
(* fetch of its second URL, and fails when that one is not ok either.       *)
\* the strategy whose fetch is outstanding in chain c
Fetching(c) == Chain(c.sid)[c.pos]

\* as claimed: within one strategy no fetch follows a response that is not
\* ok and is no rate-limit response
C24_AsClaimed ==
  \A p \in DOMAIN promises :
    /\ promises[p].chain.alt => promises[p].chain.first # "notok"
    /\ \A i \in DOMAIN promises[p].chain.log : promises[p].chain.log[i].first # "notok"

\* C24: a strategy that got a response that is not ok has failed after one
\* fetch, or, tryApiEndpoint alone, after the fetch of its second URL
C24_NotOkEndsCall ==
  \A p \in DOMAIN promises :
    /\ promises[p].chain.alt =>
         /\ ~promises[p].chain.done
         /\ Fetching(promises[p].chain) = "api"
         /\ promises[p].chain.first \in NotOk
    /\ \A i \in DOMAIN promises[p].chain.log :
         LET e == promises[p].chain.log[i]
         IN /\ e.resp = "notok" => ~e.ok
            /\ e.calls = IF e.first = "" THEN 1 ELSE 2
            /\ e.first # "" => (e.strategy = "api" /\ e.first \in NotOk)
            /\ (e.strategy = "api" /\ e.resp = "notok") => e.calls = 2

\* tryApiEndpoint got a response that was not ok to each of its two fetches
\* and failed; the chain went on with scrapeMediaPage
C24_Witness ==
  \E p \in DOMAIN promises :
    /\ Len(promises[p].chain.log) >= 2
    /\ promises[p].chain.log[2].strategy = "api"
    /\ promises[p].chain.log[2].first = "notok"
    /\ promises[p].chain.log[2].resp = "notok"
    /\ ~promises[p].chain.log[2].ok
    /\ promises[p].chain.log[1].resp = "notok"
    /\ promises[p].chain.log[1].calls = 1
    /\ ~promises[p].chain.done
    /\ Fetching(promises[p].chain) = "scrape"

(* C25: requests of different keys do not meet.  A request awaits, and is   *)
(* answered from, only a chain started by a request of its own URL and      *)
(* credential presence; a job run for one key leaves the cache entry and    *)
(* the registry entry of every other key as they were (only the periodic    *)
(* cleanup removes entries of any key); and the same URL with and without   *)
(* a credential are two keys.                                               *)
\* the key a queued job works for
JobKey(job) == IF job.t = "finally" THEN UrlKey(promises[job.p].by) ELSE UrlKey(job.h)

\* the entries of key k in the cache and in the registry do not change
Untouched(k) ==
  /\ k \in DOMAIN mediaCache <=> k \in DOMAIN mediaCache'
  /\ k \in DOMAIN mediaCache \cap DOMAIN mediaCache' => mediaCache'[k] = mediaCache[k]
  /\ k \in DOMAIN pendingRequests <=> k \in DOMAIN pendingRequests'
  /\ k \in DOMAIN pendingRequests \cap DOMAIN pendingRequests' =>
       pendingRequests'[k] = pendingRequests[k]

C25_FrameStep ==
  \A k \in DOMAIN mediaCache \cup DOMAIN mediaCache' \cup
           DOMAIN pendingRequests \cup DOMAIN pendingRequests' :
    ~Untouched(k) =>
      IF microtasks # <<>>
      THEN JobKey(Head(microtasks)) = k
      ELSE mediaCache' = SweptCache /\ pendingRequests' = pendingRequests

C25_OwnKeyOnly ==
  \A h \in Requests :
    /\ handlers[h].promise # 0 =>
         /\ UrlKey(promises[handlers[h].promise].by) = UrlKey(h)
         /\ handlers[h].pc = "done" =>
              handlers[h].resp.result = promises[handlers[h].promise].chain.value
    /\ \A g \in Requests :
         ( /\ handlers[g].promise # 0
           /\ handlers[g].promise = handlers[h].promise ) =>
             /\ handlers[g].url = handlers[h].url
             /\ (EffectiveSession(handlers[g].sessionId) = NoSession) =
                  (EffectiveSession(handlers[h].sessionId) = NoSession)

\* C25: resolutions of different keys are independent: every step is a
\* C25_FrameStep and every state satisfies C25_OwnKeyOnly
C25_KeysIndependent == [][C25_FrameStep]_vars /\ []C25_OwnKeyOnly

\* the same URL was requested with and without a credential: two chains,
\* each request answered by its own, each result cached under its own key
C25_Witness ==
  /\ Len(promises) = 2
  /\ handlers[1].pc = "done" /\ handlers[2].pc = "done"
  /\ handlers[1].url = handlers[2].url
  /\ handlers[1].promise = 1 /\ handlers[2].promise = 2
  /\ UrlKey(1)[2] # UrlKey(2)[2]
  /\ handlers[1].resp.result # handlers[2].resp.result
  /\ UrlKey(1) \in DOMAIN mediaCache /\ UrlKey(2) \in DOMAIN mediaCache
  /\ mediaCache[UrlKey(1)].data = handlers[1].resp.result
  /\ mediaCache[UrlKey(2)].data = handlers[2].resp.result

(* C26: the key tells whether a session id is used, not which.  A request   *)
(* resolved with a session id, arriving while a chain started for the same  *)
(* URL with any session id is registered, starts no chain and awaits that   *)
(* one; the result it is answered with was fetched with the session id of   *)
(* the request that started the chain.                                      *)
\* the session id request h resolves with
SessionOf(h) == EffectiveSession(handlers[h].sessionId)

\* the registered promises of chains started for the URL of request h with
\* a session id
Sharable(h) ==
  {p \in DOMAIN promises :
     /\ \E k \in DOMAIN pendingRequests : pendingRequests[k] = p
     /\ handlers[promises[p].by].url = handlers[h].url
     /\ SessionOf(promises[p].by) # NoSession}

C26_ShareStep ==
  \A h \in Requests :
    ( /\ Looks(h)
      /\ DownloadRequestSchema(handlers[h].url)
      /\ SessionOf(h) # NoSession
      /\ Sharable(h) # {} ) =>
        /\ ~ChainStarts
        /\ handlers'[h].pc = "await" => handlers'[h].promise \in Sharable(h)
        /\ handlers'[h].pc = "done" => handlers'[h].resp.cached

C26_FirstCredentialUsed ==
  /\ \A h \in Requests :
       (handlers[h].pc = "done" /\ handlers[h].promise # 0 /\ handlers[h].resp.status = 200) =>
         \A i \in DOMAIN handlers[h].resp.result.media :
           handlers[h].resp.result.media[i].session = SessionOf(promises[handlers[h].promise].by)
  /\ \A h \in Requests :
       (handlers[h].pc = "done" /\ handlers[h].resp.cached /\ SessionOf(h) # NoSession) =>
         \E p \in DOMAIN promises :
           /\ promises[p].chain.value = handlers[h].resp.result
           /\ handlers[promises[p].by].url = handlers[h].url
           /\ SessionOf(promises[p].by) # NoSession

Arrives(h) == handlers[h].pc = "idle" /\ handlers'[h].pc # "idle"

\* the request arriving is admitted: it goes on to read its body
Admitted(h) == handlers'[h].pc = "json"

\* the address has a window that has not been reset
InWindow(ip) == ip \in DOMAIN requestCounts /\ ~(now > requestCounts[ip].resetTime)

C27_ArrivalStep ==
  \A h \in Requests :
    Arrives(h) =>
      LET ip == handlers'[h].ip
      IN /\ \A other \in DOMAIN requestCounts' \ {ip} :
              other \in DOMAIN requestCounts /\ requestCounts'[other] = requestCounts[other]
         /\ ~InWindow(ip) =>
              /\ Admitted(h)
              /\ requestCounts'[ip] = [count |-> 1, resetTime |-> now + RATE_LIMIT_WINDOW]
         /\ (InWindow(ip) /\ requestCounts[ip].count < MAX_REQUESTS) =>
              /\ Admitted(h)
              /\ requestCounts'[ip] = [count |-> requestCounts[ip].count + 1,
                                       resetTime |-> requestCounts[ip].resetTime]
         /\ (InWindow(ip) /\ requestCounts[ip].count >= MAX_REQUESTS) =>
              /\ handlers'[h].pc = "done"
              /\ handlers'[h].resp.status = 429
              /\ requestCounts' = requestCounts

C27_CountWithinLimit ==
  \A ip \in DOMAIN requestCounts :
    requestCounts[ip].count >= 1 /\ requestCounts[ip].count <= MAX_REQUESTS

\* C27: fixed-window rate limit per address: every step is a
\* C27_ArrivalStep and every state satisfies C27_CountWithinLimit
C27_FixedWindow == [][C27_ArrivalStep]_vars /\ []C27_CountWithinLimit

\* with a limit of 1, the second request of an address within the window
\* was answered 429, the record still that of the first
C27_Witness ==
  /\ env.RATE_LIMIT = 1
  /\ handlers[1].pc # "idle" /\ handlers[1].resp.status # 429
  /\ handlers[2].pc = "done" /\ handlers[2].resp.status = 429
  /\ handlers[1].ip = handlers[2].ip
  /\ requestCounts[handlers[2].ip].count = 1
  /\ requestCounts[handlers[2].ip].resetTime >= handlers[2].doneAt

(* C28: the rate limit is checked before anything else.  The step that      *)
(* answers a request 429 leaves the cache, the registry, the chains and     *)
(* the job queue as they were, and that request never awaits a chain; an    *)
(* admitted request is counted on arrival, and no later step, whether the   *)
(* request is then refused as invalid, answered from the cache or           *)
(* resolved, changes the counts.                                            *)
C28_ArrivalStep ==
  \A h \in Requests :
    Arrives(h) =>
      /\ mediaCache' = mediaCache
      /\ pendingRequests' = pendingRequests
      /\ promises' = promises
      /\ microtasks' = microtasks
      /\ IF Admitted(h)
         THEN /\ handlers'[h].ip \in DOMAIN requestCounts'
              /\ requestCounts'[handlers'[h].ip].count =
                   IF InWindow(handlers'[h].ip)
                   THEN requestCounts[handlers'[h].ip].count + 1
                   ELSE 1
         ELSE /\ handlers'[h].pc = "done"
              /\ handlers'[h].resp.status = 429
              /\ requestCounts' = requestCounts

C28_CountedOnArrivalOnly ==
  (\A h \in Requests : ~Arrives(h)) => requestCounts' = requestCounts

C28_RefusedDidNothing ==
  \A h \in Requests :
    handlers[h].resp.status = 429 =>
      /\ handlers[h].pc = "done"
      /\ handlers[h].promise = 0
      /\ ~handlers[h].resp.cached
      /\ \A p \in DOMAIN promises : promises[p].by # h

\* C28: a refused request touches nothing, and every admitted request is
\* counted whatever becomes of it
C28_RateLimitFirst ==
  [][C28_ArrivalStep /\ C28_CountedOnArrivalOnly]_vars /\ []C28_RefusedDidNothing

\* within one window a client asked for a page that is no post, answered
\* 400 as invalid, and for a post, resolved and answered 200: both were
\* counted
C28_Witness ==
  \E g, h \in Requests :
    /\ handlers[g].pc = "done" /\ handlers[g].resp.status = 400
    /\ ~DownloadRequestSchema(handlers[g].url)
    /\ handlers[g].promise = 0
    /\ handlers[h].pc = "done" /\ handlers[h].resp.status = 200
    /\ DownloadRequestSchema(handlers[h].url)
    /\ handlers[g].ip = handlers[h].ip
    /\ requestCounts[handlers[h].ip].count = 2

(* C29: one call of getMediaInfo issues at most 5 fetches with a session    *)
(* id (one by tryGraphQLEndpoint, at most two by tryApiEndpoint, one by     *)
(* scrapeMediaPage, one by tryJsonEndpoint) and at most 2 without; it has   *)
(* one fetch outstanding until it returns, and it has returned when the     *)
(* last of them is answered.                                                *)
\* the fetches of the strategies that have returned
RECURSIVE CallsOf(_)
CallsOf(log) == IF log = <<>> THEN 0 ELSE Head(log).calls + CallsOf(Tail(log))

\* the fetches of chain c that have been answered
Answered(c) == CallsOf(c.log) + IF c.alt THEN 1 ELSE 0

\* C29: the fetches of a resolution are bounded, strategy by strategy, and
\* the resolution ends when they are answered
C29_BoundedFetches ==
  \A p \in DOMAIN promises :
    LET c == promises[p].chain
    IN /\ c.fetches <= IF c.sid # NoSession THEN 5 ELSE 2
       /\ c.fetches = IF c.done THEN Answered(c) ELSE Answered(c) + 1
       /\ Len(c.log) <= IF c.sid # NoSession THEN 4 ELSE 2
       /\ \A i \in DOMAIN c.log :
            /\ c.log[i].strategy # "api" => c.log[i].calls = 1
            /\ c.log[i].calls \in {1, 2}
            /\ \A j \in DOMAIN c.log : c.log[i].strategy = c.log[j].strategy => i = j
            /\ c.log[i].strategy \in {"graphql", "api"} => c.sid # NoSession
       /\ c.fetches = (IF c.sid # NoSession THEN 5 ELSE 2) =>
            \A resp \in Responses : ChainStep(c, resp).done \/ c.done

\* a resolution with a session id ended, all strategies failed, after 5
\* fetches, two of them by tryApiEndpoint
C29_Witness ==
  \E p \in DOMAIN promises :
    /\ promises[p].chain.done
    /\ promises[p].chain.sid # NoSession
    /\ promises[p].chain.fetches = 5
    /\ Len(promises[p].chain.log) = 4
    /\ promises[p].chain.log[2].calls = 2
    /\ ~promises[p].chain.value.success

(* C30: the periodic cleanup removes the entries whose expiry is in the     *)
(* past and no other: what it leaves are exactly the entries a lookup at    *)
(* the same instant returns, each as it was, and it does not change the     *)
(* registry.                                                                *)
\* between two jobs only the cleanup writes the cache
C30_SweepStep ==
  (microtasks = <<>> /\ mediaCache' # mediaCache) =>
    /\ DOMAIN mediaCache' = {k \in DOMAIN mediaCache : mediaCache[k].expires >= now}
    /\ \A k \in DOMAIN mediaCache' : mediaCache'[k] = mediaCache[k]
    /\ \A k \in DOMAIN mediaCache \ DOMAIN mediaCache' : mediaCache[k].expires < now
    /\ pendingRequests' = pendingRequests
    /\ promises' = promises
    /\ handlers' = handlers

\* what the cleanup would leave now is what a lookup would return now
C30_SweepMatchesLookup ==
  /\ DOMAIN SweptCache = {k \in DOMAIN mediaCache : CacheHit(k)}
  /\ \A k \in DOMAIN SweptCache : SweptCache[k] = mediaCache[k]

\* C30: the cleanup removes exactly the expired entries: every step is a
\* C30_SweepStep and every state satisfies C30_SweepMatchesLookup
C30_SweepExact == [][C30_SweepStep]_vars /\ []C30_SweepMatchesLookup

\* the entry written for the first request has been removed by the cleanup
\* after its expiry, no other request having looked it up
C30_Witness ==
  /\ handlers[1].pc = "done"
  /\ handlers[1].resp.status = 200
  /\ ~handlers[1].resp.cached
  /\ handlers[2].pc = "idle"
  /\ now > handlers[1].doneAt + CACHE_TTL
  /\ mediaCache = EmptyMap
  /\ pendingRequests = EmptyMap

(* ------------------------- claims C31 to C34 -------------------------- *)
\* the items of the list that succeeded among the first k
Successes(k) == {j \in 1..k : form.bulkItems[j].status = "success"}

\* C31: in a bulk download the files of the items that succeeded are numbered
\* from the start number on in the order of the input, without gap or
\* duplicate: the file of a successful item has the start number plus the
\* number of successes before it, an item that did not succeed has no file,
\* the ZIP holds these files in this order, and the next free number, during
\* and after the run, is the start number plus the number of successes.
C31_ConsecutiveNumbers ==
  /\ \A k \in DOMAIN form.bulkItems :
       IF form.bulkItems[k].status = "success"
       THEN /\ form.bulkItems[k].filename.number =
                 form.run.startNumber + Cardinality(Successes(k - 1))
            /\ form.run.files[Cardinality(Successes(k))] = form.bulkItems[k].filename
       ELSE form.bulkItems[k].filename = NoFile
  /\ Len(form.run.files) = Cardinality(Successes(Len(form.bulkItems)))
  /\ form.run.successCount = Len(form.run.files)
  /\ form.run.currentFileNumber = form.run.startNumber + form.run.successCount
  /\ form.zip # <<>> => form.zip = form.run.files
  /\ form.run.pc = "ended" /\ form.run.successCount > 0 =>
       /\ form.state.success.from = form.run.startNumber
       /\ form.state.success.to = form.run.startNumber + form.run.successCount - 1

\* a run from 2 on has ended: the first item has file 2, the second failed,
\* the third has file 3, and the ZIP holds both
C31_Witness ==
  /\ form.run.pc = "ended"
  /\ form.run.startNumber = 2
  /\ Len(form.bulkItems) = 3
  /\ form.bulkItems[1].filename.number = 2
  /\ form.bulkItems[2].status = "skipped"
  /\ form.bulkItems[3].filename.number = 3
  /\ Len(form.zip) = 2
  /\ form.run.currentFileNumber = 4

\* C33: a bulk submission with no recognised URL or with more than the
\* maximum of a batch is rejected with an error message before any request is
\* sent: a run only starts with 1 to MAX_BATCH items, one for each recognised
\* URL, and a submission that starts none sets state.error to one of the two
\* messages and leaves the item list, the progress, the loading flags and
\* everything else as they were, with no request under way.
C33_RejectedStep ==
  ~form.state.loading =>
    IF form'.state.loading
    THEN /\ Len(form'.bulkItems) \in 1..MAX_BATCH
         /\ form'.bulkProgress.total = Len(form'.bulkItems)
         /\ \A k \in DOMAIN form'.bulkItems : form'.bulkItems[k].url = "ig"
    ELSE /\ form'.state.error.msg \in {"Please enter at least one valid Instagram URL",
                                       "Maximum 50 URLs per batch"}
         /\ form' = [form EXCEPT !.state.error = form'.state.error]
         /\ form'.run.pc \in {"idle", "ended"}

C33_BadBatchRejected == [][C33_RejectedStep]_vars

\* after a run that ended with a ZIP a batch that is too large was submitted:
\* the error says so, the items and the progress of the run are still there
C33_Witness ==
  /\ form.state.error.msg = "Maximum 50 URLs per batch"
  /\ ~form.state.loading
  /\ ~form.state.downloading
  /\ form.run.pc = "ended"
  /\ Len(form.bulkItems) = MAX_BATCH
  /\ form.bulkProgress = [current |-> MAX_BATCH, total |-> MAX_BATCH]
  /\ form.state.success # NoMessage
  /\ form.zip # <<>>

\* C32: a bulk run handles its items one at a time in the order of the input
\* and ends with loading and downloading false; after a cancel no further
\* item is started and no ZIP is produced, even if items succeeded; an item
\* that was started ends as success or skipped, one that was not stays
\* pending.  Stated for the ZIP: when the run was cancelled, no ZIP has been
\* handed to the browser.
C32_NoZipAfterCancel == form.abort => form.zip = <<>>

\* the host is one of the allowed hosts or a subdomain of one
InstagramHost(hostname) ==
  \E host \in allowedHosts :
    IF hostname = host THEN TRUE ELSE endsWith(hostname, <<".">> \o host)

\* C34: the byte proxy fetches a URL only if its host is one of the allowed
\* hosts or a subdomain of one, and answers a URL of any other host with 400
\* without an upstream fetch.
C34_OnlyInstagramHosts ==
  (call.fn = "proxy GET" /\ call.input.valid /\ ~InstagramHost(call.input.hostname)) =>
     /\ ~call.out.fetched
     /\ call.out.status = 400

====
